---- MODULE Spec2Model ----
(***************************************************************************)
(* Model of the share statistics engine of btcpool (src/Statistics.cc):    *)
(* the StatsServer Registry (workerSet_, userSet_, userWorkerCount_ and    *)
(* the two totals), the per-key WorkerShares aggregates, expiry and the    *)
(* status queries (specification Spec); mergeWorkerStatus (SpecMerge);     *)
(* the consumer loop with its SQL and Redis flush threads (SpecFlush,      *)
(* SpecFlushFair); the Redis shard threads over a changing map             *)
(* (SpecShard); ShareLogWriter and the growing-file reader of              *)
(* ShareLogParser (SpecLog).  Each specification leaves the variables of   *)
(* the others at rest.                                                     *)
(*                                                                         *)
(* Wall-clock time is the variable clock; every time(nullptr) of the code  *)
(* is a read of it, and the clock may advance by one second between two    *)
(* reads made inside one call.                                             *)
(***************************************************************************)
EXTENDS Integers, Sequences, FiniteSets, TLC

(* ------------------------------ bounds -------------------------------- *)
StartTime  == 10000      \* wall clock when the server is constructed
MaxShares  == 2          \* shares delivered by the bus
MaxTicks   == 1          \* clock advances between two operations
MaxExpires == 1          \* runs of removeExpiredWorkers
MaxUserId  == 2          \* user ids 1..MaxUserId
MaxQueries == 1          \* status queries
MaxKeys    == 2          \* keys in one batch query
MaxStale   == 1          \* statuses in the vector handed to a batch query
MaxQueryIds == 1         \* worker ids in one HTTP status query

UserIds    == 1..MaxUserId
\* worker hash ids carried by the shares of a user: user 1 runs two workers
WorkerIdsOf(userId) == IF userId = 1 THEN {5, 6} ELSE {5}
ShareAges  == {0, 3600, 3601}   \* clock - share.timestamp_ on arrival
QueryWorkerIds == {0, 5}        \* worker ids of a status query
QueryKeys  == {[userId_ |-> 1, workerId_ |-> w] : w \in QueryWorkerIds}
TickSteps  == {1, 3601}         \* seconds the clock advances in a Tick

(* --------------------------- program constants ------------------------ *)
STATS_SLIDING_WINDOW_SECONDS == 3600
ACCEPT == 1
REJECT == 2

VARIABLES
  clock,               \* value returned by time(nullptr)
  poolWorker_,         \* StatsServer::poolWorker_
  workerSet_,          \* WorkerKey -> WorkerShares
  userSet_,            \* userId -> WorkerShares
  userWorkerCount_,    \* userId -> int32
  totalWorkerCount_,
  totalUserCount_,
  lastShareTime_,      \* StatsServer::lastShareTime_
  op,                  \* the call made by the last step, with its inputs
  nShares, nTicks, nExpires, nQueries

vars == <<clock, poolWorker_, workerSet_, userSet_, userWorkerCount_,
          totalWorkerCount_, totalUserCount_, lastShareTime_, op,
          nShares, nTicks, nExpires, nQueries>>

registry == <<workerSet_, userSet_, userWorkerCount_,
              totalWorkerCount_, totalUserCount_>>

\* mergeWorkerStatus as it is called by the HTTP thread.
VARIABLES
  mergeInput,          \* the vector handed to mergeWorkerStatus
  merged,              \* the status it returned
  mergeCalled          \* TRUE once the call returned

mergeVars == <<mergeInput, merged, mergeCalled>>

\* The consumer loop of runThreadConsume and the flush threads it starts.
\* Times are kept relative to the clock: an age is time(nullptr) minus the
\* stored time, saturated just above the interval it is compared with.
VARIABLES
  isInitializing_,
  isInserting_,        \* a SQL flush is in progress
  isUpdateRedis_,      \* a KV flush is in progress
  hasPoolDB,           \* poolDB_ != nullptr
  redisConcurrency_,   \* redisGroup_.size()
  lastFlushDBAge,      \* time(nullptr) - lastFlushDBTime
  lastShareAge,        \* time(nullptr) - lastShareTime_
  cleanDue,            \* lastCleanTime + kExpiredCleanInterval < time(nullptr)
  dbThreads,           \* slot -> a _flushWorkersAndUsersToDBThread
  redisThreads,        \* slot -> a _flushWorkersAndUsersToRedisThread
  lastFlushTimeSet,    \* lastFlushTime_ was assigned
  freshShareReceived,  \* a share at most 60 seconds old was consumed
  dropped,             \* sinks of which a flush failed or was dropped
  skipped              \* sinks of which a flush tick found the flag set

flushVars == <<isInitializing_, isInserting_, isUpdateRedis_, hasPoolDB,
               redisConcurrency_, lastFlushDBAge, lastShareAge, cleanDue,
               dbThreads, redisThreads, lastFlushTimeSet,
               freshShareReceived, dropped, skipped>>

\* One KV flush: the shard threads of _flushWorkersAndUsersToRedisThread and
\* the two maps they walk.
VARIABLES
  workerIter,          \* the keys of workerSet_ in its iteration order
  userIter,            \* the keys of userSet_ in its iteration order
  shardPc,             \* threadStep -> position of that shard thread
  workerWrites,        \* worker key -> HMSETs prepared for it in this flush
  userWrites,          \* user key -> HMSETs prepared for it in this flush
  stableWorkers,       \* workers in workerSet_ since the flush began
  stableUsers,         \* users in userSet_ since the flush began
  nChanges             \* inserts and erases made during the flush

shardVars == <<workerIter, userIter, shardPc, workerWrites, userWrites,
               stableWorkers, stableUsers, nChanges>>

\* ShareLogWriter, the day files it writes, and one ShareLogParser that
\* reads the growing file of day parserDay.  A file is a sequence of units;
\* a Share record takes RecordUnits of them.
VARIABLES
  running_,            \* ShareLogWriter::running_
  shares_,             \* ShareLogWriter::shares_
  fileHandlers_,       \* the day timestamps that have an open FILE
  handleBuf,           \* day -> units fwritten and not yet written out
  disk,                \* day -> content of the day file
  writerPc,            \* position of ShareLogWriter::run
  flushIdx,            \* shares of shares_ written by the running flushToDisk
  usedHandlers,        \* usedHandlers of the running flushToDisk
  lastDiskFlushAge,    \* time(nullptr) - lastFlushTime of run
  consumed,            \* the valid shares consumed so far, in order
  everClosed,          \* days whose handle tryCloseOldHanders has closed
  reopened,            \* days whose file was opened again after that
  lastPosition_,       \* ShareLogParser::lastPosition_
  parsed,              \* the shares handed to parseShare and found valid
  rkmessage            \* the message run received last (kept in SpecConsume)

logVars == <<running_, shares_, fileHandlers_, handleBuf, disk, writerPc,
             flushIdx, usedHandlers, lastDiskFlushAge, consumed, everClosed,
             reopened, lastPosition_, parsed, rkmessage>>

\* ShareLogParserServer: the thread of runThreadShareLogParser, the parser it
\* holds and the day files it follows; and a ShareLogParser that reads a file
\* that does not change any more.
VARIABLES
  unchanged,           \* the last call of processUnchangedShareLog
  replayClock,         \* value of time(nullptr) for the server
  date_,               \* ShareLogParserServer::date_
  shareLogParser_,     \* ShareLogParserServer::shareLogParser_
  shareLogParser,      \* the local pointer of the thread loop is not null
  dayFiles,            \* day -> units of the day file
  existing,            \* the days whose file exists
  replayPc,            \* position of runThreadShareLogParser
  serverRunning,       \* ShareLogParserServer::running_
  replayOp             \* the last call of trySwithBinFile and what it did

replayVars == <<unchanged, replayClock, date_, shareLogParser_,
                shareLogParser, dayFiles, existing, replayPc, serverRunning,
                replayOp>>

\* The day statistics of one ShareLogParser: parseShare and flushToDB, which
\* run on the thread of the parser.
VARIABLES
  workersStats_,       \* WorkerKey -> ShareStatsDay
  rollupOp,            \* the call made by the last step, with its inputs
  nParsed              \* calls of parseShare so far

rollupVars == <<workersStats_, rollupOp, nParsed>>

\* The threads of one StatsServer and the sinks they call: the connections
\* poolDB_, poolDBCommonEvents_, redisCommonEvents_, redisGroup_[i] and the
\* lock rwlock_, from run() to the end of ~StatsServer.
VARIABLES
  statsRunning,        \* StatsServer::running_
  mainPc,              \* the thread that calls run() and then ~StatsServer
  closeIdx,            \* connections ~StatsServer has closed and deleted
  threadPc,            \* thread -> its position
  users,               \* sink -> the threads inside a call on it
  sinkState,           \* sink -> "open", "closing" or "closed"
  crashed              \* the process died on a call through a deleted sink

sinkVars == <<statsRunning, mainPc, closeIdx, threadPc, users, sinkState,
              crashed>>

\* The threads that take rwlock_: the callers of _processShare and of
\* removeExpiredWorkers, and the row collection of
\* _flushWorkersAndUsersToDBThread.  The Registry they work on is workerSet_,
\* userSet_ and the counts above.
VARIABLES
  callers,             \* thread -> its call of _processShare and its locals
  dbReader             \* the SQL flush thread: position, values, read lock

lockVars == <<callers, dbReader>>

\* The KV sink as flushWorkersToRedis and flushUsersToRedis write it.
VARIABLES
  redisKv,             \* key -> the fields of the last HMSET
  redisOp              \* the last flush: its time, what it found, its PUBLISHes

kvVars == <<redisKv, redisOp>>

\* The table mining_workers as updateWorkerStatusToDB reads and writes it.
VARIABLES
  miningWorkers,       \* WorkerKey -> row
  metaOp               \* the last common event and its outcome

metaVars == <<miningWorkers, metaOp>>

\* The variables of the parts of the program other than the Registry.
outsideStats == <<mergeVars, flushVars, shardVars, logVars, replayVars,
                  rollupVars, sinkVars, lockVars, kvVars, metaVars>>

\* The variables a step of each other part leaves alone.
outsideFlush == <<vars, mergeVars, shardVars, logVars, replayVars, rollupVars, sinkVars,
                  lockVars, kvVars, metaVars>>
outsideShard == <<vars, mergeVars, flushVars, logVars, replayVars, rollupVars, sinkVars,
                  lockVars, kvVars, metaVars>>
outsideLog   == <<vars, mergeVars, flushVars, shardVars, replayVars, rollupVars, sinkVars,
                  lockVars, kvVars, metaVars>>
outsideReplay == <<vars, mergeVars, flushVars, shardVars, rollupVars, sinkVars,
                  lockVars, kvVars, metaVars>>
outsideRollup == <<vars, mergeVars, flushVars, shardVars, logVars, replayVars,
                   sinkVars, lockVars, kvVars, metaVars>>
\* a step of the StatsServer threads writes isInserting_ and isUpdateRedis_
outsideSinks == <<vars, mergeVars, shardVars, logVars, replayVars, rollupVars,
                  isInitializing_, hasPoolDB, redisConcurrency_,
                  lastFlushDBAge, lastShareAge, cleanDue, dbThreads,
                  redisThreads, lastFlushTimeSet, freshShareReceived, dropped,
                  skipped, lockVars, kvVars, metaVars>>
\* the Registry belongs to the steps of the three parts below
outsideLock == <<mergeVars, flushVars, shardVars, logVars, replayVars,
                 rollupVars, sinkVars, kvVars, metaVars>>
outsideKv   == <<mergeVars, flushVars, shardVars, logVars, replayVars,
                 rollupVars, sinkVars, lockVars, metaVars>>
outsideMeta == <<mergeVars, flushVars, shardVars, logVars, replayVars,
                 rollupVars, sinkVars, lockVars, kvVars>>

allVars == <<vars, outsideStats>>

(* ------------------------------ helpers ------------------------------- *)
Restrict(f, S) == [x \in S |-> f[x]]

Put(f, k, v) == [x \in (DOMAIN f) \cup {k} |-> IF x = k THEN v ELSE f[x]]

WorkerKey(userId, workerId) == [userId_ |-> userId, workerId_ |-> workerId]

SeqsUpTo(S, n) == UNION {[1..m -> S] : m \in 0..n}

(* ---------------- StatsWindow (ring of (slot key, value)) ------------- *)
EmptyWindow == [b \in {} |-> [key |-> 0, val |-> 0]]

\* insert(ringIdx, val): the bucket ringIdx mod size is replaced when it
\* holds another slot key and added to when it holds the same one.
WindowInsert(w, size, ringIdx, val) ==
  LET b == ringIdx % size IN
  IF b \in DOMAIN w /\ w[b].key = ringIdx
    THEN [w EXCEPT ![b].val = @ + val]
    ELSE Put(w, b, [key |-> ringIdx, val |-> val])

RECURSIVE SumBuckets(_, _)
SumBuckets(w, B) ==
  IF B = {} THEN 0
  ELSE LET b == CHOOSE x \in B : TRUE IN w[b].val + SumBuckets(w, B \ {b})

\* sum(begin, len): the buckets whose slot key lies in [begin - len, begin].
WindowSum(w, begin, len) ==
  SumBuckets(w, {b \in DOMAIN w : w[b].key >= begin - len /\ w[b].key <= begin})

(* ----------------------------- WorkerShares --------------------------- *)
NewWorkerShares(workerId, userId) ==
  [workerId_ |-> workerId, userId_ |-> userId, acceptCount_ |-> 0,
   lastShareIP_ |-> 0, lastShareTime_ |-> 0,
   acceptShareSec_ |-> EmptyWindow, rejectShareMin_ |-> EmptyWindow]

\* Counted with acceptCount_ incremented for a share of either result.
Counted_anyResult(ws, share) ==
  LET counted ==
        IF share.result_ = ACCEPT
          THEN [ws EXCEPT
                  !.acceptCount_ = @ + 1,
                  !.acceptShareSec_ =
                     WindowInsert(@, STATS_SLIDING_WINDOW_SECONDS,
                                  share.timestamp_, share.share_)]
          ELSE [ws EXCEPT
                  !.acceptCount_ = @ + 1,
                  !.rejectShareMin_ =
                     WindowInsert(@, STATS_SLIDING_WINDOW_SECONDS \div 60,
                                  share.timestamp_ \div 60, share.share_)]
  IN [counted EXCEPT !.lastShareIP_   = share.ip_,
                     !.lastShareTime_ = share.timestamp_]

\* WorkerShares::processShare past its horizon test: the share is counted and
\* lastShareIP_ and lastShareTime_ are assigned from it.
Counted(ws, share) ==
  LET counted ==
        IF share.result_ = ACCEPT
          THEN [ws EXCEPT
                  !.acceptCount_ = @ + 1,
                  !.acceptShareSec_ =
                     WindowInsert(@, STATS_SLIDING_WINDOW_SECONDS,
                                  share.timestamp_, share.share_)]
          ELSE [ws EXCEPT
                  !.rejectShareMin_ =
                     WindowInsert(@, STATS_SLIDING_WINDOW_SECONDS \div 60,
                                  share.timestamp_ \div 60, share.share_)]
  IN [counted EXCEPT !.lastShareIP_   = share.ip_,
                     !.lastShareTime_ = share.timestamp_]

\* WorkerShares::processShare with now the value its time(nullptr) returns.
WorkerShares_processShare(ws, share, now) ==
  IF now > share.timestamp_ + STATS_SLIDING_WINDOW_SECONDS
    THEN ws
    ELSE Counted(ws, share)

\* isExpired with the horizon one second too long.
WorkerShares_isExpired_late(ws, now) ==
  (ws.lastShareTime_ + STATS_SLIDING_WINDOW_SECONDS + 1) < now

\* WorkerShares::isExpired with now the value its time(nullptr) returns.
WorkerShares_isExpired(ws, now) ==
  (ws.lastShareTime_ + STATS_SLIDING_WINDOW_SECONDS) < now

(* ------------------------------ WorkerStatus -------------------------- *)
\* The default-constructed WorkerStatus.
ZeroStatus ==
  [accept1m_ |-> 0, accept5m_ |-> 0, accept15m_ |-> 0, reject15m_ |-> 0,
   accept1h_ |-> 0, reject1h_ |-> 0, acceptCount_ |-> 0,
   lastShareIP_ |-> 0, lastShareTime_ |-> 0]

\* WorkerShares::getWorkerStatus(WorkerStatus &) with now its clock value:
\* every field of the status is overwritten.
WorkerShares_getWorkerStatus(ws, now) ==
  [accept1m_  |-> WindowSum(ws.acceptShareSec_, now, 60),
   accept5m_  |-> WindowSum(ws.acceptShareSec_, now, 300),
   accept15m_ |-> WindowSum(ws.acceptShareSec_, now, 900),
   reject15m_ |-> WindowSum(ws.rejectShareMin_, now \div 60, 15),
   accept1h_  |-> WindowSum(ws.acceptShareSec_, now, 3600),
   reject1h_  |-> WindowSum(ws.rejectShareMin_, now \div 60, 60),
   acceptCount_   |-> ws.acceptCount_,
   lastShareIP_   |-> ws.lastShareIP_,
   lastShareTime_ |-> ws.lastShareTime_]

\* A status left in the caller's vector by an earlier use.
StaleStatus == [ZeroStatus EXCEPT !.acceptCount_ = 7, !.lastShareTime_ = 9]

(* ------------------------------ StatsServer --------------------------- *)
Reg == [workerSet_ |-> workerSet_, userSet_ |-> userSet_,
        userWorkerCount_ |-> userWorkerCount_,
        totalWorkerCount_ |-> totalWorkerCount_,
        totalUserCount_ |-> totalUserCount_]

\* std::unordered_map::operator[] on userWorkerCount_: an absent key reads 0.
CountOf(counts, userId) == IF userId \in DOMAIN counts THEN counts[userId] ELSE 0

\* The horizon test with the horizon one second too long.
TooOld_lax(now, share) == now > share.timestamp_ + STATS_SLIDING_WINDOW_SECONDS + 1

\* The horizon test of StatsServer::processShare.
TooOld(now, share) == now > share.timestamp_ + STATS_SLIDING_WINDOW_SECONDS

\* InsertWorker without the increment of userWorkerCount_.
InsertWorker_noUserCount(reg, key, workerShare) ==
  [reg EXCEPT !.workerSet_ = Put(@, key, workerShare),
              !.totalWorkerCount_ = @ + 1]

\* _processShare, the insertion of a new worker under the write lock.
InsertWorker(reg, key, workerShare) ==
  [reg EXCEPT !.workerSet_ = Put(@, key, workerShare),
              !.totalWorkerCount_ = @ + 1,
              !.userWorkerCount_ = Put(@, key.userId_, CountOf(@, key.userId_) + 1)]

\* _processShare, the insertion of a new user under the write lock.
InsertUser(reg, userId, userShare) ==
  [reg EXCEPT !.userSet_ = Put(@, userId, userShare),
              !.totalUserCount_ = @ + 1]

\* StatsServer::_processShare; nowWorker and nowUser are the clock values read
\* by the two WorkerShares::processShare calls it makes.
StatsServer__processShare(reg, key, share, nowWorker, nowUser) ==
  LET userId      == key.userId_
      workerFound == key \in DOMAIN reg.workerSet_
      userFound   == userId \in DOMAIN reg.userSet_
      workerShare == WorkerShares_processShare(
                       NewWorkerShares(share.workerHashId_, share.userId_),
                       share, nowWorker)
      userShare   == WorkerShares_processShare(
                       NewWorkerShares(share.workerHashId_, share.userId_),
                       share, nowUser)
      r1 == IF workerFound
              THEN [reg EXCEPT !.workerSet_[key] =
                                  WorkerShares_processShare(@, share, nowWorker)]
              ELSE reg
      r2 == IF userFound
              THEN [r1 EXCEPT !.userSet_[userId] =
                                  WorkerShares_processShare(@, share, nowUser)]
              ELSE r1
      r3 == IF workerFound THEN r2 ELSE InsertWorker(r2, key, workerShare)
  IN  IF userFound THEN r3 ELSE InsertUser(r3, userId, userShare)

\* removeExpiredWorkers, the body of the worker loop for an expired worker.
EraseWorker(reg, key) ==
  LET userId == key.userId_
      cnt    == CountOf(reg.userWorkerCount_, userId) - 1
  IN [reg EXCEPT
        !.workerSet_ = Restrict(@, (DOMAIN @) \ {key}),
        !.totalWorkerCount_ = @ - 1,
        !.userWorkerCount_ = IF cnt <= 0 THEN Restrict(@, (DOMAIN @) \ {userId})
                                         ELSE Put(@, userId, cnt)]

\* removeExpiredWorkers, the body of the user loop for an expired user.
EraseUser(reg, userId) ==
  [reg EXCEPT !.userSet_ = Restrict(@, (DOMAIN @) \ {userId}),
              !.totalUserCount_ = @ - 1]

\* The worker loop; readAt[key] is the clock value isExpired reads for key.
RECURSIVE ExpireWorkers(_, _, _)
ExpireWorkers(reg, todo, readAt) ==
  IF todo = {} THEN reg
  ELSE LET key == CHOOSE k \in todo : TRUE
       IN ExpireWorkers(
            IF WorkerShares_isExpired(reg.workerSet_[key], readAt[key])
              THEN EraseWorker(reg, key) ELSE reg,
            todo \ {key}, readAt)

\* The user loop; readAt[userId] is the clock value isExpired reads for it.
RECURSIVE ExpireUsers(_, _, _)
ExpireUsers(reg, todo, readAt) ==
  IF todo = {} THEN reg
  ELSE LET userId == CHOOSE u \in todo : TRUE
       IN ExpireUsers(
            IF WorkerShares_isExpired(reg.userSet_[userId], readAt[userId])
              THEN EraseUser(reg, userId) ELSE reg,
            todo \ {userId}, readAt)

StatsServer_removeExpiredWorkers(reg, workerReadAt, userReadAt) ==
  ExpireUsers(ExpireWorkers(reg, DOMAIN reg.workerSet_, workerReadAt),
              DOMAIN reg.userSet_, userReadAt)

\* vector::resize(n): the first n elements are kept, new ones are
\* default-constructed.
Resize(workerStatus, n) ==
  [i \in 1..n |-> IF i <= Len(workerStatus) THEN workerStatus[i] ELSE ZeroStatus]

\* getWorkerStatusBatch, the lookup of one key under the read lock: the
\* aggregate found, as a one-element set (empty for nullptr).
FindPtr(reg, key) ==
  IF key.workerId_ = 0
    THEN IF key.userId_ \in DOMAIN reg.userSet_
           THEN {reg.userSet_[key.userId_]} ELSE {}
    ELSE IF key \in DOMAIN reg.workerSet_
           THEN {reg.workerSet_[key]} ELSE {}

\* StatsServer::getWorkerStatusBatch: the vector workerStatus after the call.
StatsServer_getWorkerStatusBatch(reg, keys, workerStatus, now) ==
  LET resized == Resize(workerStatus, Len(keys))
  IN [i \in 1..Len(keys) |->
        LET ptr == FindPtr(reg, keys[i])
        IN IF ptr # {}
             THEN WorkerShares_getWorkerStatus(CHOOSE ws \in ptr : TRUE, now)
             ELSE resized[i]]

SetRegistry(reg) ==
  /\ workerSet_' = reg.workerSet_
  /\ userSet_' = reg.userSet_
  /\ userWorkerCount_' = reg.userWorkerCount_
  /\ totalWorkerCount_' = reg.totalWorkerCount_
  /\ totalUserCount_' = reg.totalUserCount_

\* The other parts of the program at rest.
MergeIdle == mergeInput = <<>> /\ merged = ZeroStatus /\ mergeCalled = FALSE

\* bounds and inputs of the consumer loop and the flush threads
TickSeconds       == 30   \* seconds between two observations of the clock
MaxFlushThreads   == 2    \* flush threads of one sink that can be alive
kFlushDBInterval_ == 20
FreshShareSeconds == 60
ShareArrivalAges  == {0, 60, 61}  \* time(nullptr) - share.timestamp_ on arrival
RedisConcurrencies == {0, 2}
FlushSlots == 1..MaxFlushThreads

NoDbThread == [pc |-> "none", ran |-> <<>>, failedAt |-> "none",
               reconnected |-> FALSE, stamped |-> FALSE]

NoRedisThread == [pc |-> "none", pending |-> 0, failed |-> FALSE]

FlushIdle ==
  /\ isInitializing_ = TRUE
  /\ isInserting_ = FALSE
  /\ isUpdateRedis_ = FALSE
  /\ hasPoolDB = FALSE
  /\ redisConcurrency_ = 0
  /\ lastFlushDBAge = 0
  /\ lastShareAge = FreshShareSeconds + 1
  /\ cleanDue = FALSE
  /\ dbThreads = [s \in FlushSlots |-> NoDbThread]
  /\ redisThreads = [s \in FlushSlots |-> NoRedisThread]
  /\ lastFlushTimeSet = FALSE
  /\ freshShareReceived = FALSE
  /\ dropped = {}
  /\ skipped = {}

\* bounds and inputs of one KV flush
MaxShardWorkers == 3     \* worker keys 1..MaxShardWorkers
MaxShardUsers   == 2     \* user keys 1..MaxShardUsers
MaxChanges      == 1     \* inserts and erases during one flush
ShardConcurrency == 2    \* redisConcurrency_ of the flush
ShardWorkerKeys == 1..MaxShardWorkers
ShardUserKeys   == 1..MaxShardUsers
ShardSteps      == 0..(ShardConcurrency - 1)

ShardIdle ==
  /\ workerIter = <<>>
  /\ userIter = <<>>
  /\ shardPc = [i \in ShardSteps |-> "done"]
  /\ workerWrites = [k \in ShardWorkerKeys |-> 0]
  /\ userWrites = [u \in ShardUserKeys |-> 0]
  /\ stableWorkers = {}
  /\ stableUsers = {}
  /\ nChanges = 0

\* bounds and inputs of the share log
MaxLogShares == 5        \* messages that carry a valid share
MaxLogDays   == 4        \* day files
RecordUnits  == 2        \* units of one Share record
kMaxElementsNum_ == 2    \* records one fread of the parser asks for
LogDays      == {86400 * d : d \in 1..MaxLogDays}
LogTimestamps == LogDays \cup {86400 + 86399}
parserDay    == 86400

LogIdle ==
  /\ running_ = TRUE
  /\ shares_ = <<>>
  /\ fileHandlers_ = {}
  /\ handleBuf = [d \in LogDays |-> <<>>]
  /\ disk = [d \in LogDays |-> <<>>]
  /\ writerPc = "loop"
  /\ flushIdx = 0
  /\ usedHandlers = {}
  /\ lastDiskFlushAge = 0
  /\ consumed = <<>>
  /\ everClosed = {}
  /\ reopened = {}
  /\ lastPosition_ = 0
  /\ parsed = <<>>
  /\ rkmessage = [kind |-> "none"]

\* bounds and inputs of the replayer
MaxFileRecords == 3      \* whole records of a file that does not change
MaxReplayDays  == 3      \* days the server runs through
MaxDayUnits    == 3      \* units the writer appends to one day file
ReplayDays     == {86400 * d : d \in 1..MaxReplayDays}
\* the seconds of a day at which the clock is read
ReplaySeconds  == {0, 5, 6}
ReplayTimes    == {day + sec : day \in ReplayDays, sec \in ReplaySeconds}
NullParser     == [null |-> TRUE]

ReplayIdle ==
  /\ unchanged = [result |-> "none"]
  /\ replayClock = 86400
  /\ date_ = 86400
  /\ shareLogParser_ = NullParser
  /\ shareLogParser = FALSE
  /\ dayFiles = [day \in ReplayDays |-> <<>>]
  /\ existing = {}
  /\ replayPc = "run"
  /\ serverRunning = TRUE
  /\ replayOp = [kind |-> "none"]

\* bounds and inputs of the day statistics
MaxRollupShares == 2     \* calls of parseShare
MantissaBits    == 2     \* significant bits of a floating-point number
Hours           == 0..23
RollupUserIds   == {0, 1}
RollupWorkerIds == {0, 5}
RollupKeys      == [userId_ : RollupUserIds, workerId_ : RollupWorkerIds]
\* the first second of hour 0 and of hour 1 and the last second of the day
RollupTimestamps == {86400, 86400 + 3600, 86400 + 86399}

\* ShareStatsDay::ShareStatsDay.
NewShareStatsDay ==
  [shareAccept1h_ |-> [h \in Hours |-> 0],
   shareReject1h_ |-> [h \in Hours |-> 0],
   score1h_ |-> [h \in Hours |-> 0],
   shareAccept1d_ |-> 0, shareReject1d_ |-> 0, score1d_ |-> 0,
   modifyHoursFlag_ |-> {}]

PoolKey == [userId_ |-> 0, workerId_ |-> 0]

RollupIdle ==
  /\ workersStats_ = [k \in {PoolKey} |-> NewShareStatsDay]
  /\ rollupOp = [kind |-> "init"]
  /\ nParsed = 0

\* the sinks and the threads of one StatsServer
Sink(name, idx) == [name |-> name, idx |-> idx]

poolDB_ == Sink("poolDB_", 0)

poolDBCommonEvents_ == Sink("poolDBCommonEvents_", 0)

redisCommonEvents_ == Sink("redisCommonEvents_", 0)

redisGroup_ == [i \in ShardSteps |-> Sink("redisGroup_", i)]

rwlock_ == Sink("rwlock_", 0)

Connections ==
  {poolDB_, poolDBCommonEvents_, redisCommonEvents_}
    \cup {redisGroup_[i] : i \in ShardSteps}

Sinks == Connections \cup {rwlock_}

Thread(name, idx) == [name |-> name, idx |-> idx]

MainThread == Thread("main", 0)

ThreadConsume == Thread("threadConsume_", 0)

ThreadConsumeCommonEvents == Thread("threadConsumeCommonEvents_", 0)

DbFlushThread == Thread("_flushWorkersAndUsersToDBThread", 0)

RedisFlushThread == Thread("_flushWorkersAndUsersToRedisThread", 0)

RedisShardThread == [i \in ShardSteps |-> Thread("threadStep", i)]

FlushThreads ==
  {DbFlushThread, RedisFlushThread} \cup {RedisShardThread[i] : i \in ShardSteps}

Threads == {ThreadConsume, ThreadConsumeCommonEvents} \cup FlushThreads

SinkIdle ==
  /\ statsRunning = TRUE
  /\ mainPc = "init"
  /\ closeIdx = 0
  /\ threadPc = [t \in Threads |-> "none"]
  /\ users = [r \in Sinks |-> {}]
  /\ sinkState = [r \in Sinks |-> "open"]
  /\ crashed = FALSE

\* bounds and inputs of the threads that take rwlock_
MaxCallers == 2          \* threads inside _processShare at the same time
Callers == 1..MaxCallers

NoCall == [pc |-> "idle"]

NoReader == [pc |-> "none", values |-> <<>>]

LockIdle ==
  /\ callers = [t \in Callers |-> NoCall]
  /\ dbReader = NoReader

KvIdle ==
  /\ redisKv = <<>>
  /\ redisOp = [kind |-> "init"]

MetaIdle ==
  /\ miningWorkers = <<>>
  /\ metaOp = [kind |-> "init"]

OutsideStatsIdle ==
  /\ MergeIdle /\ FlushIdle /\ ShardIdle /\ LogIdle /\ ReplayIdle
  /\ RollupIdle /\ SinkIdle /\ LockIdle /\ KvIdle /\ MetaIdle

Init ==
  /\ clock = StartTime
  /\ poolWorker_ = NewWorkerShares(0, 0)
  /\ workerSet_ = [k \in {} |-> NewWorkerShares(0, 0)]
  /\ userSet_ = [u \in {} |-> NewWorkerShares(0, 0)]
  /\ userWorkerCount_ = [u \in {} |-> 0]
  /\ totalWorkerCount_ = 0
  /\ totalUserCount_ = 0
  /\ lastShareTime_ = 0
  /\ op = [kind |-> "init"]
  /\ nShares = 0 /\ nTicks = 0 /\ nExpires = 0 /\ nQueries = 0
  /\ OutsideStatsIdle

\* The clock advances while the consumer thread waits for the bus.
Tick ==
  /\ nTicks < MaxTicks
  /\ \E d \in TickSteps :
       /\ clock' = clock + d
       /\ op' = [kind |-> "tick", d |-> d]
  /\ nTicks' = nTicks + 1
  /\ UNCHANGED <<poolWorker_, registry, lastShareTime_, nShares, nExpires, nQueries>>
  /\ UNCHANGED outsideStats

\* StatsServer::processShare of one valid share taken from the bus.  tickAt
\* names the time(nullptr) call before which the clock advances by a second:
\* 1 the pool aggregate's, 2 the worker aggregate's, 3 the user aggregate's,
\* 0 none.  An advance inside the call is drawn for the shares that sit on
\* the horizon, where it changes the outcome of a later horizon test; for
\* every other share it is the same as a Tick of one second after the call.
ProcessShare ==
  /\ nShares < MaxShares
  /\ \E userId \in UserIds, age \in ShareAges,
        result \in {ACCEPT, REJECT}, tickAt \in 0..3 :
      \E workerId \in WorkerIdsOf(userId) :
       LET share == [userId_ |-> userId, workerHashId_ |-> workerId,
                     ip_ |-> 100 + nShares, timestamp_ |-> clock - age,
                     share_ |-> 1, result_ |-> result]
           now       == clock
           nowPool   == now + (IF tickAt = 1 THEN 1 ELSE 0)
           nowWorker == nowPool + (IF tickAt = 2 THEN 1 ELSE 0)
           nowUser   == nowWorker + (IF tickAt = 3 THEN 1 ELSE 0)
       IN /\ tickAt # 0 => age = STATS_SLIDING_WINDOW_SECONDS
          /\ lastShareTime_' = share.timestamp_
          /\ IF TooOld(now, share)
               THEN /\ UNCHANGED <<clock, poolWorker_, registry>>
               ELSE /\ poolWorker_' = WorkerShares_processShare(poolWorker_, share, nowPool)
                    /\ SetRegistry(StatsServer__processShare(
                                     Reg, WorkerKey(share.userId_, share.workerHashId_),
                                     share, nowWorker, nowUser))
                    /\ clock' = nowUser
          /\ op' = [kind |-> "processShare", share |-> share, now |-> now,
                    nowPool |-> nowPool, nowWorker |-> nowWorker,
                    nowUser |-> nowUser]
  /\ nShares' = nShares + 1
  /\ UNCHANGED <<nTicks, nExpires, nQueries>>
  /\ UNCHANGED outsideStats

\* StatsServer::removeExpiredWorkers.  Every isExpired reads the clock; the
\* clock may advance by a second during the sweep: the workers in early and
\* the users in earlyUsers are tested before the advance, the others after
\* it (the worker loop runs before the user loop).
RemoveExpiredWorkers ==
  /\ nExpires < MaxExpires
  /\ \E d \in {0, 1}, early \in SUBSET (DOMAIN workerSet_),
        earlyUsers \in SUBSET (DOMAIN userSet_) :
       /\ d = 0 => (early = DOMAIN workerSet_ /\ earlyUsers = DOMAIN userSet_)
       /\ early # DOMAIN workerSet_ => earlyUsers = {}
       /\ LET workerReadAt == [k \in DOMAIN workerSet_ |->
                                 IF k \in early THEN clock ELSE clock + d]
              userReadAt   == [u \in DOMAIN userSet_ |->
                                 IF u \in earlyUsers THEN clock ELSE clock + d]
              after        == StatsServer_removeExpiredWorkers(
                                Reg, workerReadAt, userReadAt)
          IN /\ SetRegistry(after)
             /\ op' = [kind |-> "expire", begin |-> clock, end |-> clock + d,
                       workerReadAt |-> workerReadAt, userReadAt |-> userReadAt,
                       expiredWorkerCount |->
                         Cardinality(DOMAIN workerSet_ \ DOMAIN after.workerSet_),
                       expiredUserCount |->
                         Cardinality(DOMAIN userSet_ \ DOMAIN after.userSet_)]
       /\ clock' = clock + d
  /\ nExpires' = nExpires + 1
  /\ UNCHANGED <<poolWorker_, lastShareTime_, nShares, nTicks, nQueries>>
  /\ UNCHANGED outsideStats

\* A call of getWorkerStatusBatch(keys, workerStatus); the vector handed in
\* is empty or holds statuses of an earlier use.
GetWorkerStatusBatch ==
  /\ nQueries < MaxQueries
  /\ nQueries' = nQueries + 1
  /\ \E keys \in SeqsUpTo(QueryKeys, MaxKeys), n \in 0..MaxStale :
       LET before == [i \in 1..n |-> StaleStatus]
       IN op' = [kind |-> "batch", keys |-> keys, before |-> before,
                 out |-> StatsServer_getWorkerStatusBatch(Reg, keys, before, clock)]
  /\ UNCHANGED <<clock, poolWorker_, registry, lastShareTime_,
                 nShares, nTicks, nExpires>>
  /\ UNCHANGED outsideStats

\* StatsServer::getWorkerStatus of the HTTP thread for user userId and the
\* worker ids of the query string (boost::split yields at least one id).  For
\* every key with worker id 0 of an unmerged answer it evaluates
\* userWorkerCount_[userId], which inserts the key with value 0 when absent.
HttpGetWorkerStatus ==
  /\ nQueries < MaxQueries
  /\ nQueries' = nQueries + 1
  /\ \E userId \in UserIds, workerIds \in SeqsUpTo(QueryWorkerIds, MaxQueryIds) \ {<<>>},
        isMerge \in BOOLEAN :
       LET keys == [i \in 1..Len(workerIds) |-> WorkerKey(userId, workerIds[i])]
           readsCount == ~isMerge /\ \E i \in 1..Len(keys) : keys[i].workerId_ = 0
       IN /\ userWorkerCount_' =
               IF readsCount
                 THEN Put(userWorkerCount_, userId, CountOf(userWorkerCount_, userId))
                 ELSE userWorkerCount_
          /\ op' = [kind |-> "http", userId |-> userId, keys |-> keys,
                    isMerge |-> isMerge]
  /\ UNCHANGED <<clock, poolWorker_, workerSet_, userSet_, totalWorkerCount_,
                 totalUserCount_, lastShareTime_, nShares, nTicks, nExpires>>

  /\ UNCHANGED outsideStats
Next ==
  \/ Tick
  \/ ProcessShare
  \/ RemoveExpiredWorkers
  \/ GetWorkerStatusBatch
  \/ HttpGetWorkerStatus

Spec == Init /\ [][Next]_allVars

(* ======================= properties of the claims ====================== *)
Max(a, b) == IF a >= b THEN a ELSE b

WorkersOf(workers, userId) == {k \in DOMAIN workers : k.userId_ = userId}

RECURSIVE SumCounts(_, _)
SumCounts(counts, U) ==
  IF U = {} THEN 0
  ELSE LET u == CHOOSE x \in U : TRUE IN counts[u] + SumCounts(counts, U \ {u})

\* The aggregate a share is applied to: the one stored under the key, or a
\* newly constructed one when the key is unseen.
TargetOf(set, k, share) ==
  IF k \in DOMAIN set THEN set[k]
  ELSE NewWorkerShares(share.workerHashId_, share.userId_)

ShareKey(share) == WorkerKey(share.userId_, share.workerHashId_)

\* C1: the totals equal the sizes of workerSet_ and userSet_, every
\* userWorkerCount_[u] equals the number of workers of user u, and the counts
\* add up to totalWorkerCount_.
RegistryCountsConsistent ==
  /\ totalWorkerCount_ = Cardinality(DOMAIN workerSet_)
  /\ totalUserCount_ = Cardinality(DOMAIN userSet_)
  /\ \A u \in UserIds \cup DOMAIN userWorkerCount_ :
       CountOf(userWorkerCount_, u) = Cardinality(WorkersOf(workerSet_, u))
  /\ SumCounts(userWorkerCount_, DOMAIN userWorkerCount_) = totalWorkerCount_

\* C1 witness: an expire that removed a worker of a user and left another
\* worker registered.
RegistryCountsWitness ==
  /\ op.kind = "expire"
  /\ op.expiredWorkerCount >= 1
  /\ totalWorkerCount_ >= 1
  /\ DOMAIN userWorkerCount_ # {}

\* C2: a processShare step never lowers the lastShareTime_ of an aggregate,
\* and an aggregate that records the share ends with the maximum of its
\* previous lastShareTime_ and the share's timestamp.
LastShareTimeClamped ==
  [][op'.kind = "processShare" =>
      LET share == op'.share
          key   == ShareKey(share)
      IN /\ poolWorker_'.lastShareTime_ >= poolWorker_.lastShareTime_
         /\ \A k \in DOMAIN workerSet_ \cap DOMAIN workerSet_' :
              workerSet_'[k].lastShareTime_ >= workerSet_[k].lastShareTime_
         /\ \A u \in DOMAIN userSet_ \cap DOMAIN userSet_' :
              userSet_'[u].lastShareTime_ >= userSet_[u].lastShareTime_
         /\ op'.nowPool <= share.timestamp_ + 3600 =>
              poolWorker_'.lastShareTime_ =
                Max(poolWorker_.lastShareTime_, share.timestamp_)
         /\ op'.nowWorker <= share.timestamp_ + 3600 =>
              workerSet_'[key].lastShareTime_ =
                Max(TargetOf(workerSet_, key, share).lastShareTime_, share.timestamp_)
         /\ op'.nowUser <= share.timestamp_ + 3600 =>
              userSet_'[share.userId_].lastShareTime_ =
                Max(TargetOf(userSet_, share.userId_, share).lastShareTime_,
                    share.timestamp_)
  ]_vars

\* The share as its target aggregates record it, written out from the share:
\* one more accepted share and its weight in the second's bucket, or its
\* weight in the minute's bucket; the ip and the timestamp of the share.
Recorded(before, after, share) ==
  /\ after.lastShareIP_ = share.ip_
  /\ after.lastShareTime_ = share.timestamp_
  /\ after.workerId_ = before.workerId_ /\ after.userId_ = before.userId_
  /\ IF share.result_ = ACCEPT
       THEN /\ after.acceptCount_ = before.acceptCount_ + 1
            /\ WindowSum(after.acceptShareSec_, share.timestamp_, 0) =
                 WindowSum(before.acceptShareSec_, share.timestamp_, 0) + share.share_
            /\ after.rejectShareMin_ = before.rejectShareMin_
       ELSE /\ after.acceptCount_ = before.acceptCount_
            /\ WindowSum(after.rejectShareMin_, share.timestamp_ \div 60, 0) =
                 WindowSum(before.rejectShareMin_, share.timestamp_ \div 60, 0)
                   + share.share_
            /\ after.acceptShareSec_ = before.acceptShareSec_

\* C3: a processShare of an ACCEPT share that is within the horizon at the
\* wall-clock time of the call raises the accept count of the worker keyed
\* (user_id, worker_hash_id) by exactly one, an unseen key counting as 0.
AcceptCountIncremented ==
  [][(/\ op'.kind = "processShare"
      /\ op'.now - op'.share.timestamp_ <= 3600
      /\ op'.share.result_ = ACCEPT)
     => /\ ShareKey(op'.share) \in DOMAIN workerSet_'
        /\ workerSet_'[ShareKey(op'.share)].acceptCount_ =
             TargetOf(workerSet_, ShareKey(op'.share), op'.share).acceptCount_ + 1
  ]_vars

\* C4: after an expire that completes at time T no aggregate of workerSet_ or
\* userSet_ has lastShareTime_ + 3600 < T.
NoExpiredLeftAtCompletion ==
  op.kind = "expire" =>
    /\ \A k \in DOMAIN workerSet_ : ~(workerSet_[k].lastShareTime_ + 3600 < op.end)
    /\ \A u \in DOMAIN userSet_ : ~(userSet_[u].lastShareTime_ + 3600 < op.end)

\* C4 as amended: after an expire that started at time T0 no aggregate of
\* workerSet_ or userSet_ has lastShareTime_ + 3600 < T0.
NoExpiredLeftSinceStart ==
  op.kind = "expire" =>
    /\ \A k \in DOMAIN workerSet_ : ~(workerSet_[k].lastShareTime_ + 3600 < op.begin)
    /\ \A u \in DOMAIN userSet_ : ~(userSet_[u].lastShareTime_ + 3600 < op.begin)

\* C4 witness: an expire during which the clock advanced, that removed a
\* worker and a user and kept a worker that is on the horizon.
NoExpiredLeftWitness ==
  /\ op.kind = "expire"
  /\ op.end > op.begin
  /\ op.expiredWorkerCount >= 1 /\ op.expiredUserCount >= 1
  /\ \E k \in DOMAIN workerSet_ : workerSet_[k].lastShareTime_ + 3600 = op.begin

\* The part of C5 on what an expire removes and keeps: a removed aggregate
\* was expired when its isExpired was evaluated, an aggregate that was not is
\* kept unchanged, the pool aggregate is untouched, and each removed worker
\* takes one off totalWorkerCount_ and off the count of its user.
ExpireRemovesOnlyExpired ==
  /\ poolWorker_' = poolWorker_
  /\ DOMAIN workerSet_' \subseteq DOMAIN workerSet_
  /\ DOMAIN userSet_' \subseteq DOMAIN userSet_
  /\ \A k \in DOMAIN workerSet_ :
       IF workerSet_[k].lastShareTime_ + 3600 < op'.workerReadAt[k]
         THEN k \notin DOMAIN workerSet_'
         ELSE k \in DOMAIN workerSet_' /\ workerSet_'[k] = workerSet_[k]
  /\ \A u \in DOMAIN userSet_ :
       IF userSet_[u].lastShareTime_ + 3600 < op'.userReadAt[u]
         THEN u \notin DOMAIN userSet_'
         ELSE u \in DOMAIN userSet_' /\ userSet_'[u] = userSet_[u]
  /\ totalWorkerCount_' =
       totalWorkerCount_ - Cardinality(DOMAIN workerSet_ \ DOMAIN workerSet_')
  /\ totalUserCount_' =
       totalUserCount_ - Cardinality(DOMAIN userSet_ \ DOMAIN userSet_')
  /\ \A u \in UserIds :
       CountOf(userWorkerCount_', u) =
         CountOf(userWorkerCount_, u)
           - Cardinality(WorkersOf(workerSet_, u) \ WorkersOf(workerSet_', u))

\* C5: an expire removes only expired aggregates, leaves the others and
\* their counters unchanged, takes each removed worker off totalWorkerCount_
\* and off the count of its user, and leaves no entry of userWorkerCount_
\* that is zero or negative.
ExpireFrame ==
  [][op'.kind = "expire" =>
       /\ ExpireRemovesOnlyExpired
       /\ \A u \in DOMAIN userWorkerCount_' : userWorkerCount_'[u] > 0
  ]_vars

\* The three targets of a share (pool, worker, user) each record it once.
AllTargetsRecorded(share) ==
  LET key == ShareKey(share)
  IN /\ Recorded(poolWorker_, poolWorker_', share)
     /\ key \in DOMAIN workerSet_'
     /\ Recorded(TargetOf(workerSet_, key, share), workerSet_'[key], share)
     /\ share.userId_ \in DOMAIN userSet_'
     /\ Recorded(TargetOf(userSet_, share.userId_, share),
                 userSet_'[share.userId_], share)

\* C6: a share with timestamp = now - 3600 is processed (the pool, worker and
\* user aggregates are updated) and a share with timestamp = now - 3601 is
\* skipped, now being the wall-clock time of the processShare call.
HorizonInclusive ==
  [][op'.kind = "processShare" =>
       /\ op'.now - op'.share.timestamp_ = 3600 => AllTargetsRecorded(op'.share)
       /\ op'.now - op'.share.timestamp_ = 3601 =>
            (registry' = registry /\ poolWorker_' = poolWorker_)
  ]_vars

\* C7: a processShare of a share older than the horizon leaves workerSet_,
\* userSet_, userWorkerCount_, both totals and the pool aggregate as they
\* were.
OldShareLeavesRegistry ==
  [][(op'.kind = "processShare" /\ op'.now - op'.share.timestamp_ > 3600)
     => (registry' = registry /\ poolWorker_' = poolWorker_)
  ]_vars

\* C7 witness: a share older than the horizon was passed for a key that has
\* an aggregate in workerSet_.
OldShareWitness ==
  /\ op.kind = "processShare"
  /\ op.now - op.share.timestamp_ > 3600
  /\ ShareKey(op.share) \in DOMAIN workerSet_
  /\ lastShareTime_ = op.share.timestamp_

\* C8: after a processShare of a share within the horizon workerSet_ holds
\* an aggregate for the share's key and userSet_ one for its user, created
\* from the share for an unseen key and updated in place otherwise, the
\* pool, worker and user aggregates have each recorded the share once, and
\* no other aggregate has changed.
ShareRecordedInRegistry ==
  [][(op'.kind = "processShare" /\ op'.now - op'.share.timestamp_ <= 3600)
     => /\ AllTargetsRecorded(op'.share)
        /\ DOMAIN workerSet_' = DOMAIN workerSet_ \cup {ShareKey(op'.share)}
        /\ DOMAIN userSet_' = DOMAIN userSet_ \cup {op'.share.userId_}
        /\ \A k \in DOMAIN workerSet_ \ {ShareKey(op'.share)} :
             workerSet_'[k] = workerSet_[k]
        /\ \A u \in DOMAIN userSet_ \ {op'.share.userId_} :
             userSet_'[u] = userSet_[u]
  ]_vars

\* C9: a REJECT share leaves acceptCount_ and acceptShareSec_ of every
\* aggregate unchanged, an ACCEPT share leaves every rejectShareMin_
\* unchanged (an aggregate created by the call compared with a new one).
RejectAndAcceptSeparate ==
  [][op'.kind = "processShare" =>
       LET share == op'.share
           SameAccept(a, b) == /\ a.acceptCount_ = b.acceptCount_
                               /\ a.acceptShareSec_ = b.acceptShareSec_
           SameReject(a, b) == a.rejectShareMin_ = b.rejectShareMin_
           Same(a, b) == IF share.result_ = REJECT THEN SameAccept(a, b)
                                                   ELSE SameReject(a, b)
       IN /\ Same(poolWorker_, poolWorker_')
          /\ \A k \in DOMAIN workerSet_' :
               Same(TargetOf(workerSet_, k, share), workerSet_'[k])
          /\ \A u \in DOMAIN userSet_' :
               Same(TargetOf(userSet_, u, share), userSet_'[u])
  ]_vars

\* C9 witness: a REJECT share was recorded by a worker aggregate that had
\* counted an accepted share before.
RejectAndAcceptWitness ==
  /\ op.kind = "processShare"
  /\ op.share.result_ = REJECT
  /\ ShareKey(op.share) \in DOMAIN workerSet_
  /\ workerSet_[ShareKey(op.share)].lastShareIP_ = op.share.ip_
  /\ workerSet_[ShareKey(op.share)].acceptCount_ >= 1
  /\ DOMAIN workerSet_[ShareKey(op.share)].rejectShareMin_ # {}

\* The status getWorkerStatusBatch owes for a key: that of the user aggregate
\* for worker id 0, that of the worker aggregate otherwise, zero when the key
\* is not registered.
StatusOwed(key) ==
  IF key.workerId_ = 0
    THEN IF key.userId_ \in DOMAIN userSet_
           THEN WorkerShares_getWorkerStatus(userSet_[key.userId_], clock)
           ELSE ZeroStatus
    ELSE IF key \in DOMAIN workerSet_
           THEN WorkerShares_getWorkerStatus(workerSet_[key], clock)
           ELSE ZeroStatus

RecordedWhenClockStable ==
  [][(/\ op'.kind = "processShare"
      /\ op'.now - op'.share.timestamp_ <= 3600
      /\ op'.nowUser = op'.now)
     => /\ AllTargetsRecorded(op'.share)
        /\ DOMAIN workerSet_' = DOMAIN workerSet_ \cup {ShareKey(op'.share)}
        /\ DOMAIN userSet_' = DOMAIN userSet_ \cup {op'.share.userId_}
        /\ \A k \in DOMAIN workerSet_ \ {ShareKey(op'.share)} :
             workerSet_'[k] = workerSet_[k]
        /\ \A u \in DOMAIN userSet_ \ {op'.share.userId_} :
             userSet_'[u] = userSet_[u]
  ]_vars

\* An expire removes and keeps what the first part of C5 says.
ExpireRemovesOnlyExpiredHolds ==
  [][op'.kind = "expire" => ExpireRemovesOnlyExpired]_vars

\* A batch query that is handed an empty vector returns the owed statuses.
BatchStatusFromEmptyVector ==
  (op.kind = "batch" /\ op.before = <<>>) =>
    /\ Len(op.out) = Len(op.keys)
    /\ \A i \in 1..Len(op.keys) : op.out[i] = StatusOwed(op.keys[i])

(* ========================= mergeWorkerStatus ========================== *)
MaxMerge == 3            \* statuses in the vector handed to mergeWorkerStatus

\* Statuses of the vector: the six window sums follow from a and r, the ip
\* and the time of the last share are free.
MergeStatuses ==
  {[accept1m_ |-> a, accept5m_ |-> a + 1, accept15m_ |-> a + 2,
    reject15m_ |-> r, accept1h_ |-> a + 3, reject1h_ |-> r + 1,
    acceptCount_ |-> a + 4, lastShareIP_ |-> ip, lastShareTime_ |-> t] :
     a \in {0, 1}, r \in {2}, ip \in {0, 7, 8}, t \in {0, 5, 6}}

\* The loop body of mergeWorkerStatus with the last share taken from every
\* element, whatever its time.
MergeOne_lastWins(s, e) ==
  [accept1m_  |-> s.accept1m_  + e.accept1m_,
   accept5m_  |-> s.accept5m_  + e.accept5m_,
   accept15m_ |-> s.accept15m_ + e.accept15m_,
   reject15m_ |-> s.reject15m_ + e.reject15m_,
   accept1h_  |-> s.accept1h_  + e.accept1h_,
   reject1h_  |-> s.reject1h_  + e.reject1h_,
   acceptCount_   |-> s.acceptCount_ + e.acceptCount_,
   lastShareIP_   |-> e.lastShareIP_,
   lastShareTime_ |-> e.lastShareTime_]

\* The loop body of mergeWorkerStatus: element e is added to s.
MergeOne(s, e) ==
  [accept1m_  |-> s.accept1m_  + e.accept1m_,
   accept5m_  |-> s.accept5m_  + e.accept5m_,
   accept15m_ |-> s.accept15m_ + e.accept15m_,
   reject15m_ |-> s.reject15m_ + e.reject15m_,
   accept1h_  |-> s.accept1h_  + e.accept1h_,
   reject1h_  |-> s.reject1h_  + e.reject1h_,
   acceptCount_   |-> s.acceptCount_ + e.acceptCount_,
   lastShareIP_   |-> IF e.lastShareTime_ > s.lastShareTime_
                        THEN e.lastShareIP_ ELSE s.lastShareIP_,
   lastShareTime_ |-> IF e.lastShareTime_ > s.lastShareTime_
                        THEN e.lastShareTime_ ELSE s.lastShareTime_]

RECURSIVE MergeFrom(_, _, _)
MergeFrom(s, statuses, i) ==
  IF i > Len(statuses) THEN s
  ELSE MergeFrom(MergeOne(s, statuses[i]), statuses, i + 1)

\* StatsServer::mergeWorkerStatus.
StatsServer_mergeWorkerStatus(statuses) ==
  IF Len(statuses) = 0 THEN ZeroStatus
  ELSE MergeFrom(ZeroStatus, statuses, 1)

StatsIdle ==
  /\ clock = StartTime
  /\ poolWorker_ = NewWorkerShares(0, 0)
  /\ workerSet_ = [k \in {} |-> NewWorkerShares(0, 0)]
  /\ userSet_ = [u \in {} |-> NewWorkerShares(0, 0)]
  /\ userWorkerCount_ = [u \in {} |-> 0]
  /\ totalWorkerCount_ = 0
  /\ totalUserCount_ = 0
  /\ lastShareTime_ = 0
  /\ op = [kind |-> "init"]
  /\ nShares = 0 /\ nTicks = 0 /\ nExpires = 0 /\ nQueries = 0

MergeInit ==
  /\ StatsIdle
  /\ FlushIdle
  /\ ShardIdle
  /\ LogIdle
  /\ ReplayIdle
  /\ RollupIdle
  /\ SinkIdle
  /\ LockIdle
  /\ KvIdle
  /\ MetaIdle
  /\ mergeInput \in SeqsUpTo(MergeStatuses, MaxMerge)
  /\ merged = ZeroStatus
  /\ mergeCalled = FALSE

MergeWorkerStatus ==
  /\ ~mergeCalled
  /\ merged' = StatsServer_mergeWorkerStatus(mergeInput)
  /\ mergeCalled' = TRUE
  /\ UNCHANGED <<vars, mergeInput, flushVars, shardVars, logVars, replayVars,
                 rollupVars, sinkVars, lockVars, kvVars, metaVars>>

MergeNext == MergeWorkerStatus

SpecMerge == MergeInit /\ [][MergeNext]_allVars

RECURSIVE SumField(_, _, _)
SumField(statuses, f, i) ==
  IF i > Len(statuses) THEN 0 ELSE statuses[i][f] + SumField(statuses, f, i + 1)

MaxLastShareTime(statuses) ==
  IF Len(statuses) = 0 THEN 0
  ELSE CHOOSE t \in {statuses[i].lastShareTime_ : i \in 1..Len(statuses)} :
         \A i \in 1..Len(statuses) : statuses[i].lastShareTime_ <= t

SumFields == {"accept1m_", "accept5m_", "accept15m_", "reject15m_",
              "accept1h_", "reject1h_", "acceptCount_"}

MergedSumsAndTime ==
  /\ \A f \in SumFields : merged[f] = SumField(mergeInput, f, 1)
  /\ merged.lastShareTime_ = MaxLastShareTime(mergeInput)
  /\ Len(mergeInput) = 0 => merged = ZeroStatus

Saturate(age, limit) == IF age > limit THEN limit + 1 ELSE age

\* The least free slot of a sink's threads, 0 when every slot is taken.
FreeSlot(threads) ==
  IF \E s \in FlushSlots : threads[s].pc = "none"
    THEN CHOOSE s \in FlushSlots :
           /\ threads[s].pc = "none"
           /\ \A r \in FlushSlots : threads[r].pc = "none" => s <= r
    ELSE 0

\* boost::thread t(...): a new thread in its first position.
StartThread(threads, thread) ==
  IF FreeSlot(threads) = 0 THEN threads
  ELSE [threads EXCEPT ![FreeSlot(threads)] = thread]

Alive(threads) == {s \in FlushSlots : threads[s].pc # "none"}

\* flushWorkersAndUsersToDB that starts a thread whatever isInserting_ is.
StatsServer_flushWorkersAndUsersToDB_always(flag, threads) ==
  [flag |-> TRUE, skippedTick |-> FALSE,
   threads |-> StartThread(threads, [NoDbThread EXCEPT !.pc = "ping"])]

\* StatsServer::flushWorkersAndUsersToDB: flag is isInserting_.
StatsServer_flushWorkersAndUsersToDB(flag, threads) ==
  IF flag
    THEN [flag |-> flag, skippedTick |-> TRUE, threads |-> threads]
    ELSE [flag |-> TRUE, skippedTick |-> FALSE,
          threads |-> StartThread(threads, [NoDbThread EXCEPT !.pc = "ping"])]

\* StatsServer::flushWorkersAndUsersToRedis: flag is isUpdateRedis_.
StatsServer_flushWorkersAndUsersToRedis(flag, threads) ==
  IF flag
    THEN [flag |-> flag, skippedTick |-> TRUE, threads |-> threads]
    ELSE [flag |-> TRUE, skippedTick |-> FALSE,
          threads |-> StartThread(threads, [NoRedisThread EXCEPT !.pc = "spawn"])]

\* The branch of the loop body with the flush branch also taken while
\* initializing.
LoopBranch_flushWhileInitializing(initializing, flushDue, noNewShares, shareStale) ==
  IF initializing /\ ~flushDue THEN "wait" ELSE "run"

\* The branch one iteration of runThreadConsume takes after the consume step.
LoopBranch(initializing, flushDue, noNewShares, shareStale) ==
  IF initializing
    THEN IF flushDue
           THEN IF ~noNewShares /\ shareStale THEN "history" ELSE "endInit"
           ELSE "wait"
    ELSE "run"

\* What kafkaConsumer_.consumer hands to one iteration: nullptr, a message
\* that consumeShareLog drops (an error such as PARTITION_EOF, a wrong
\* length, an invalid share), or a valid share.
ConsumerMessages ==
  {[kind |-> "null", age |-> 0], [kind |-> "dropped", age |-> 0]}
    \cup {[kind |-> "share", age |-> a] : a \in ShareArrivalAges}

FlushInit ==
  /\ StatsIdle
  /\ MergeIdle
  /\ ShardIdle
  /\ LogIdle
  /\ ReplayIdle
  /\ RollupIdle
  /\ SinkIdle
  /\ LockIdle
  /\ KvIdle
  /\ MetaIdle
  /\ isInitializing_ = TRUE
  /\ isInserting_ = FALSE
  /\ isUpdateRedis_ = FALSE
  /\ hasPoolDB \in BOOLEAN
  /\ redisConcurrency_ \in RedisConcurrencies
  /\ hasPoolDB \/ redisConcurrency_ > 0
  /\ lastFlushDBAge = 0
  /\ lastShareAge = FreshShareSeconds + 1
  /\ cleanDue = FALSE
  /\ dbThreads = [s \in FlushSlots |-> NoDbThread]
  /\ redisThreads = [s \in FlushSlots |-> NoRedisThread]
  /\ lastFlushTimeSet = FALSE
  /\ freshShareReceived = FALSE
  /\ dropped = {}
  /\ skipped = {}

\* The clock advances; the expire timer can become due with it.
FlushTick ==
  /\ lastFlushDBAge' = Saturate(lastFlushDBAge + TickSeconds, kFlushDBInterval_)
  /\ lastShareAge' = Saturate(lastShareAge + TickSeconds, FreshShareSeconds)
  /\ cleanDue' \in {cleanDue, TRUE}
  /\ UNCHANGED <<isInitializing_, isInserting_, isUpdateRedis_, hasPoolDB,
                 redisConcurrency_, dbThreads, redisThreads, lastFlushTimeSet,
                 freshShareReceived, dropped, skipped>>
  /\ UNCHANGED outsideFlush

\* One iteration of the while loop of runThreadConsume.
RunThreadConsume ==
  \E msg \in ConsumerMessages :
    LET noNewShares == msg.kind = "null"
        shareAge    == IF msg.kind = "share"
                         THEN Saturate(msg.age, FreshShareSeconds)
                         ELSE lastShareAge
        branch == LoopBranch(isInitializing_,
                             lastFlushDBAge > kFlushDBInterval_,
                             noNewShares,
                             shareAge > FreshShareSeconds)
        flushDue == branch = "run" /\ lastFlushDBAge > kFlushDBInterval_
        db    == IF flushDue /\ hasPoolDB
                   THEN StatsServer_flushWorkersAndUsersToDB(isInserting_, dbThreads)
                   ELSE [flag |-> isInserting_, skippedTick |-> FALSE,
                         threads |-> dbThreads]
        redis == IF flushDue /\ redisConcurrency_ > 0
                   THEN StatsServer_flushWorkersAndUsersToRedis(isUpdateRedis_, redisThreads)
                   ELSE [flag |-> isUpdateRedis_, skippedTick |-> FALSE,
                         threads |-> redisThreads]
    IN /\ lastShareAge' = shareAge
       /\ freshShareReceived' =
            (freshShareReceived \/
               (msg.kind = "share" /\ msg.age <= FreshShareSeconds))
       /\ isInitializing_' = IF branch = "endInit" THEN FALSE ELSE isInitializing_
       /\ cleanDue' = IF branch = "run" THEN FALSE ELSE cleanDue
       /\ lastFlushDBAge' = IF branch = "history" \/ flushDue
                              THEN 0 ELSE lastFlushDBAge
       /\ isInserting_' = db.flag
       /\ dbThreads' = db.threads
       /\ isUpdateRedis_' = redis.flag
       /\ redisThreads' = redis.threads
       /\ skipped' = skipped \cup (IF db.skippedTick THEN {"db"} ELSE {})
                             \cup (IF redis.skippedTick THEN {"redis"} ELSE {})
       /\ UNCHANGED <<hasPoolDB, redisConcurrency_, lastFlushTimeSet, dropped>>
       /\ UNCHANGED outsideFlush

SqlSteps == <<"drop", "create", "insert", "merge">>

SqlStepSet == {SqlSteps[i] : i \in 1..Len(SqlSteps)}

StepIndex(step) == CHOOSE i \in 1..Len(SqlSteps) : SqlSteps[i] = step

\* The SQL thread after a failed step, returning right after the reconnect
\* of a failed create.
DbAfterFailure_return(thread, step) ==
  IF step = "create"
    THEN [thread EXCEPT !.pc = "none", !.failedAt = step, !.reconnected = TRUE]
    ELSE [thread EXCEPT !.pc = "finish", !.failedAt = step]

\* The SQL thread after its step failed: poolDB_->reconnect() for a failed
\* create, then goto finish.
DbAfterFailure(thread, step) ==
  IF step = "create"
    THEN [thread EXCEPT !.pc = "finish", !.failedAt = step, !.reconnected = TRUE]
    ELSE [thread EXCEPT !.pc = "finish", !.failedAt = step]

DbFrame ==
  /\ UNCHANGED <<isInitializing_, isUpdateRedis_, hasPoolDB, redisConcurrency_,
                 lastFlushDBAge, lastShareAge, cleanDue, redisThreads,
                 freshShareReceived, skipped>>
  /\ UNCHANGED outsideFlush

\* poolDB_->ping() of _flushWorkersAndUsersToDBThread.
DbPing ==
  \E s \in FlushSlots, ok \in BOOLEAN :
    /\ dbThreads[s].pc = "ping"
    /\ dbThreads' = [dbThreads EXCEPT ![s] =
         IF ok THEN [@ EXCEPT !.pc = "collect"]
               ELSE [@ EXCEPT !.pc = "finish", !.failedAt = "ping"]]
    /\ UNCHANGED <<isInserting_, lastFlushTimeSet, dropped>>
    /\ DbFrame

\* The value rows are collected under the read lock; with no row the thread
\* goes to finish.
DbCollect ==
  \E s \in FlushSlots, rows \in {0, 1} :
    /\ dbThreads[s].pc = "collect"
    /\ dbThreads' = [dbThreads EXCEPT ![s] =
         IF rows = 0 THEN [@ EXCEPT !.pc = "finish", !.failedAt = "norows"]
                     ELSE [@ EXCEPT !.pc = "drop"]]
    /\ UNCHANGED <<isInserting_, lastFlushTimeSet, dropped>>
    /\ DbFrame

\* One of the four SQL statements; after the merge lastFlushTime_ is assigned.
DbExecute ==
  \E s \in FlushSlots, ok \in BOOLEAN :
    LET step == dbThreads[s].pc
        ran  == [dbThreads[s] EXCEPT !.ran = Append(@, step)]
    IN /\ step \in SqlStepSet
       /\ dbThreads' = [dbThreads EXCEPT ![s] =
            IF ~ok THEN DbAfterFailure(ran, step)
            ELSE IF step = "merge"
                   THEN [ran EXCEPT !.pc = "finish", !.stamped = TRUE]
                   ELSE [ran EXCEPT !.pc = SqlSteps[StepIndex(step) + 1]]]
       /\ lastFlushTimeSet' = (lastFlushTimeSet \/ (ok /\ step = "merge"))
       /\ UNCHANGED <<isInserting_, dropped>>
       /\ DbFrame

\* finish: isInserting_ = false, and the thread ends.
DbFinish ==
  \E s \in FlushSlots :
    /\ dbThreads[s].pc = "finish"
    /\ isInserting_' = FALSE
    /\ dropped' = IF dbThreads[s].failedAt # "none"
                    THEN dropped \cup {"db"} ELSE dropped
    /\ dbThreads' = [dbThreads EXCEPT ![s] = NoDbThread]
    /\ UNCHANGED lastFlushTimeSet
    /\ DbFrame

RedisFrame ==
  /\ UNCHANGED <<isInitializing_, isInserting_, hasPoolDB, redisConcurrency_,
                 lastFlushDBAge, lastShareAge, cleanDue, dbThreads,
                 lastFlushTimeSet, freshShareReceived, skipped>>
  /\ UNCHANGED outsideFlush

\* _flushWorkersAndUsersToRedisThread() starts one thread per connection.
RedisSpawn ==
  \E s \in FlushSlots :
    /\ redisThreads[s].pc = "spawn"
    /\ redisThreads' = [redisThreads EXCEPT ![s] =
         [@ EXCEPT !.pc = "join", !.pending = redisConcurrency_]]
    /\ UNCHANGED <<isUpdateRedis_, dropped>>
    /\ RedisFrame

\* _flushWorkersAndUsersToRedisThread(threadStep) runs to its end: it returns
\* at once when checkRedis fails, else it flushes workers and users.
RedisShard ==
  \E s \in FlushSlots, ok \in BOOLEAN :
    /\ redisThreads[s].pc = "join"
    /\ redisThreads[s].pending > 0
    /\ redisThreads' = [redisThreads EXCEPT ![s] =
         [@ EXCEPT !.pending = @ - 1, !.failed = (@ \/ ~ok)]]
    /\ UNCHANGED <<isUpdateRedis_, dropped>>
    /\ RedisFrame

\* Every shard thread is joined; isUpdateRedis_ = false, and the thread ends.
RedisJoin ==
  \E s \in FlushSlots :
    /\ redisThreads[s].pc = "join"
    /\ redisThreads[s].pending = 0
    /\ isUpdateRedis_' = FALSE
    /\ dropped' = IF redisThreads[s].failed
                    THEN dropped \cup {"redis"} ELSE dropped
    /\ redisThreads' = [redisThreads EXCEPT ![s] = NoRedisThread]
    /\ RedisFrame

DbThreadStep == DbPing \/ DbCollect \/ DbExecute \/ DbFinish

RedisThreadStep == RedisSpawn \/ RedisShard \/ RedisJoin

FlushNext ==
  \/ FlushTick
  \/ RunThreadConsume
  \/ DbPing
  \/ DbCollect
  \/ DbExecute
  \/ DbFinish
  \/ RedisSpawn
  \/ RedisShard
  \/ RedisJoin

SpecFlush == FlushInit /\ [][FlushNext]_allVars

\* The consumer loop keeps iterating, the clock keeps advancing, and every
\* flush thread keeps running: its calls on the sink return.
SpecFlushFair ==
  /\ FlushInit
  /\ [][FlushNext]_allVars
  /\ WF_allVars(RunThreadConsume)
  /\ WF_allVars(FlushTick)
  /\ WF_allVars(DbThreadStep)
  /\ WF_allVars(RedisThreadStep)

\* C12: at every moment at most one SQL flush thread and at most one KV flush
\* thread is alive, a live thread has its flag set, and a flush tick that
\* finds the flag set starts no thread.
AtMostOneFlushPerSink ==
  /\ Cardinality(Alive(dbThreads)) <= 1
  /\ Cardinality(Alive(redisThreads)) <= 1
  /\ Alive(dbThreads) # {} => isInserting_
  /\ Alive(redisThreads) # {} => isUpdateRedis_

\* A flush tick found both flags set, and the flushes it met are still
\* running alone.
FlushSkippedWitness ==
  /\ skipped = {"db", "redis"}
  /\ Cardinality(Alive(dbThreads)) = 1
  /\ Cardinality(Alive(redisThreads)) = 1

\* C13: every started SQL or KV flush eventually clears its flag, whatever
\* its exit path is.
FlushFlagEventuallyCleared ==
  /\ isInserting_ ~> ~isInserting_
  /\ isUpdateRedis_ ~> ~isUpdateRedis_

\* After a failed SQL flush and a failed KV flush a later tick has started a
\* new flush of each sink.
FlushRestartedWitness ==
  /\ dropped = {"db", "redis"}
  /\ Alive(dbThreads) # {} /\ isInserting_
  /\ Alive(redisThreads) # {} /\ isUpdateRedis_

ThreadStarted(before, after) ==
  \E s \in FlushSlots : before[s].pc = "none" /\ after[s].pc # "none"

\* C14: a SQL flush, a KV flush or an expire starts only in a loop iteration
\* that observes isInitializing_ false.
FlushOnlyAfterInitializing ==
  [][(\/ ThreadStarted(dbThreads, dbThreads')
      \/ ThreadStarted(redisThreads, redisThreads')
      \/ (cleanDue /\ ~cleanDue'))
     => ~isInitializing_]_flushVars

\* The initialization ended and a later iteration has started both flushes.
FlushAfterInitializingWitness ==
  /\ ~isInitializing_
  /\ Alive(dbThreads) # {}
  /\ Alive(redisThreads) # {}
  /\ freshShareReceived

\* C15: once a share at most 60 seconds old was received, isInitializing_
\* eventually becomes false; once false it stays false.
FreshShareEndsInitializing ==
  /\ [](freshShareReceived => <>(~isInitializing_))
  /\ [][~isInitializing_ => ~isInitializing_']_flushVars

\* C17: a failed SQL step ends the flush with a reconnect and without a
\* later step, and lastFlushTime_ is assigned only after a successful merge.
SqlFailureReconnects ==
  \A s \in FlushSlots :
    LET thread == dbThreads[s]
    IN /\ thread.failedAt \in SqlStepSet =>
            /\ thread.reconnected
            /\ thread.pc = "finish"
            /\ thread.ran[Len(thread.ran)] = thread.failedAt
       /\ thread.stamped =>
            /\ thread.failedAt = "none"
            /\ thread.ran = SqlSteps

\* Supporting C17: a failed SQL step ends the flush without a later step, and
\* lastFlushTime_ is assigned only after a successful merge; only a failed
\* create reconnects.
SqlFailureAborts ==
  \A s \in FlushSlots :
    LET thread == dbThreads[s]
    IN /\ thread.failedAt \in SqlStepSet =>
            /\ thread.pc = "finish"
            /\ thread.ran[Len(thread.ran)] = thread.failedAt
            /\ thread.reconnected <=> thread.failedAt = "create"
       /\ thread.stamped =>
            /\ thread.failedAt = "none"
            /\ thread.ran = SqlSteps

(* ===================== shard threads of one KV flush ================== *)
Range(seq) == {seq[i] : i \in 1..Len(seq)}

\* Sequences of distinct elements of S: the iteration orders of a map with
\* keys in S.
Orders(S) ==
  {o \in SeqsUpTo(S, Cardinality(S)) :
     \A i, j \in 1..Len(o) : i # j => o[i] # o[j]}

\* The order with key k inserted before position pos.
InsertAt(order, pos, k) ==
  [i \in 1..(Len(order) + 1) |->
     IF i < pos THEN order[i] ELSE IF i = pos THEN k ELSE order[i - 1]]

\* The order without key k; erase keeps the order of the other elements.
Without(order, k) == SelectSeq(order, LAMBDA x : x # k)

\* flushWorkersToRedis / flushUsersToRedis of thread threadStep: the keys it
\* visits in a map of iteration order order, with concurrency
\* redisConcurrency_.
ShardKeys(order, concurrency, threadStep) ==
  LET size        == Len(order)
      stepSize    == (size \div concurrency)
                       + (IF size % concurrency # 0 THEN 1 ELSE 0)
      offsetBegin == stepSize * threadStep
  IN {order[p] : p \in {q \in 1..size :
                          q > offsetBegin /\ q <= offsetBegin + stepSize}}

ShardInit ==
  /\ StatsIdle
  /\ MergeIdle
  /\ FlushIdle
  /\ LogIdle
  /\ ReplayIdle
  /\ RollupIdle
  /\ SinkIdle
  /\ LockIdle
  /\ KvIdle
  /\ MetaIdle
  /\ workerIter \in Orders(ShardWorkerKeys)
  /\ userIter \in Orders(ShardUserKeys)
  /\ shardPc = [i \in ShardSteps |-> "workers"]
  /\ workerWrites = [k \in ShardWorkerKeys |-> 0]
  /\ userWrites = [u \in ShardUserKeys |-> 0]
  /\ stableWorkers = Range(workerIter)
  /\ stableUsers = Range(userIter)
  /\ nChanges = 0

\* flushWorkersToRedis(threadStep): under the read lock the thread computes
\* its range from the current size and prepares one HMSET per key in it.
ShardFlushWorkers ==
  \E i \in ShardSteps :
    /\ shardPc[i] = "workers"
    /\ shardPc' = [shardPc EXCEPT ![i] = "users"]
    /\ workerWrites' =
         [k \in ShardWorkerKeys |->
            IF k \in ShardKeys(workerIter, ShardConcurrency, i)
              THEN workerWrites[k] + 1 ELSE workerWrites[k]]
    /\ UNCHANGED <<workerIter, userIter, userWrites, stableWorkers,
                   stableUsers, nChanges>>
    /\ UNCHANGED outsideShard

\* flushUsersToRedis(threadStep), under a read lock of its own.
ShardFlushUsers ==
  \E i \in ShardSteps :
    /\ shardPc[i] = "users"
    /\ shardPc' = [shardPc EXCEPT ![i] = "done"]
    /\ userWrites' =
         [u \in ShardUserKeys |->
            IF u \in ShardKeys(userIter, ShardConcurrency, i)
              THEN userWrites[u] + 1 ELSE userWrites[u]]
    /\ UNCHANGED <<workerIter, userIter, workerWrites, stableWorkers,
                   stableUsers, nChanges>>
    /\ UNCHANGED outsideShard

\* _processShare of the consumer thread inserts a new worker, or a new user,
\* under the write lock while no shard thread holds the read lock; the new
\* element can come anywhere in the iteration order.
ShardProcessShare ==
  /\ nChanges < MaxChanges
  /\ \E i \in ShardSteps : shardPc[i] # "done"
  /\ nChanges' = nChanges + 1
  /\ \/ \E k \in ShardWorkerKeys \ Range(workerIter),
           pos \in 1..(Len(workerIter) + 1) :
          /\ workerIter' = InsertAt(workerIter, pos, k)
          /\ UNCHANGED userIter
     \/ \E u \in ShardUserKeys \ Range(userIter),
           pos \in 1..(Len(userIter) + 1) :
          /\ userIter' = InsertAt(userIter, pos, u)
          /\ UNCHANGED workerIter
  /\ UNCHANGED <<shardPc, workerWrites, userWrites, stableWorkers, stableUsers>>
  /\ UNCHANGED outsideShard

\* removeExpiredWorkers of the consumer thread erases a worker, or a user,
\* under the write lock while no shard thread holds the read lock.
ShardRemoveExpired ==
  /\ nChanges < MaxChanges
  /\ \E i \in ShardSteps : shardPc[i] # "done"
  /\ nChanges' = nChanges + 1
  /\ \/ \E k \in Range(workerIter) :
          /\ workerIter' = Without(workerIter, k)
          /\ stableWorkers' = stableWorkers \ {k}
          /\ UNCHANGED <<userIter, stableUsers>>
     \/ \E u \in Range(userIter) :
          /\ userIter' = Without(userIter, u)
          /\ stableUsers' = stableUsers \ {u}
          /\ UNCHANGED <<workerIter, stableWorkers>>
  /\ UNCHANGED <<shardPc, workerWrites, userWrites>>
  /\ UNCHANGED outsideShard

ShardNext ==
  \/ ShardFlushWorkers
  \/ ShardFlushUsers
  \/ ShardProcessShare
  \/ ShardRemoveExpired

SpecShard == ShardInit /\ [][ShardNext]_allVars

ShardsDone == \A i \in ShardSteps : shardPc[i] = "done"

\* C16: when the flush is over, every worker and every user that was in the
\* Registry for the whole flush has been written by exactly one shard, also
\* when a key was inserted or erased between the shards' read locks.
EveryStableKeyWrittenOnce ==
  ShardsDone =>
    /\ \A k \in stableWorkers : workerWrites[k] = 1
    /\ \A u \in stableUsers : userWrites[u] = 1

\* Supporting C16: in a flush during which the maps did not change, every
\* key is written by exactly one shard.
UnchangedMapWrittenOnce ==
  (ShardsDone /\ nChanges = 0) =>
    /\ \A k \in ShardWorkerKeys :
         workerWrites[k] = IF k \in Range(workerIter) THEN 1 ELSE 0
    /\ \A u \in ShardUserKeys :
         userWrites[u] = IF u \in Range(userIter) THEN 1 ELSE 0

(* ================= ShareLogWriter and ShareLogParser ================== *)
kFlushDiskInterval == 2
kMaxOpenHandlers   == 3

\* The day bucket rounded to the nearest day start.
DayOf_nearest(timestamp) ==
  (timestamp + 43200) - ((timestamp + 43200) % 86400)

\* const uint32_t ts = share.timestamp_ - (share.timestamp_ % 86400).
DayOf(timestamp) == timestamp - (timestamp % 86400)

\* fwrite of one Share: the units of its record.
Encode(share) ==
  [p \in 1..RecordUnits |-> [id |-> share.id, ts |-> share.timestamp_, part |-> p]]

\* The Share that record i of the buffer of a fread is cast to; units that do
\* not form one record give a share that isValid rejects.
Decode(units, i) ==
  LET first == units[(i - 1) * RecordUnits + 1]
  IN IF \A p \in 1..RecordUnits :
          units[(i - 1) * RecordUnits + p] =
            [id |-> first.id, ts |-> first.ts, part |-> p]
       THEN [id |-> first.id, timestamp_ |-> first.ts, valid |-> TRUE]
       ELSE [id |-> 0, timestamp_ |-> 0, valid |-> FALSE]

\* fopen that truncates the file.
Fopen_truncate(content) == <<>>

\* fopen(filePath, "ab") of getFileHandler: the content of the file is kept.
Fopen(content) == content

Min(S) == CHOOSE x \in S : \A y \in S : x <= y

\* tryCloseOldHanders that closes the handle of the newest day.
RECURSIVE ShareLogWriter_tryCloseOldHanders_newest(_)
ShareLogWriter_tryCloseOldHanders_newest(handlers) ==
  IF Cardinality(handlers) > 3
    THEN ShareLogWriter_tryCloseOldHanders_newest(handlers \ {CHOOSE x \in handlers : \A y \in handlers : y <= x})
    ELSE handlers

\* The handlers that tryCloseOldHanders leaves open.
RECURSIVE ShareLogWriter_tryCloseOldHanders(_)
ShareLogWriter_tryCloseOldHanders(handlers) ==
  IF Cardinality(handlers) > kMaxOpenHandlers
    THEN ShareLogWriter_tryCloseOldHanders(handlers \ {Min(handlers)})
    ELSE handlers

\* The end of run without the flush of the shares that are left.
AfterLoop_noFlush(shares) == "exited"

\* The position of run after its loop: flushToDisk when shares are left.
AfterLoop(shares) == IF Len(shares) > 0 THEN "lastFlush" ELSE "exited"

\* fread(buf_, sizeof(Share), kMaxElementsNum_, f_) at position pos of the
\* file: the number of whole records read.
ReadNum(content, pos) ==
  LET whole == (Len(content) - pos) \div RecordUnits
  IN IF whole > kMaxElementsNum_ THEN kMaxElementsNum_ ELSE whole

\* The cursor taken from the file position indicator after the fread, which
\* has also passed the units of a record that is not whole yet.
AdvancePosition_ftell(content, pos, readNum) ==
  IF Len(content) - pos > kMaxElementsNum_ * RecordUnits
    THEN pos + kMaxElementsNum_ * RecordUnits
    ELSE Len(content)

\* lastPosition_ += readNum * sizeof(Share); a zero read returns before it.
AdvancePosition(content, pos, readNum) ==
  IF readNum = 0 THEN pos ELSE pos + readNum * RecordUnits

\* parseShareLog of the records one processGrowingShareLog read: the valid
\* shares, in the order of the file.
ParseShareLog(content, pos, readNum) ==
  LET units == SubSeq(content, pos + 1, pos + readNum * RecordUnits)
  IN SelectSeq([i \in 1..readNum |-> Decode(units, i)], LAMBDA sh : sh.valid)

LogInit ==
  /\ StatsIdle
  /\ MergeIdle
  /\ FlushIdle
  /\ ShardIdle
  /\ LogIdle
  /\ ReplayIdle
  /\ RollupIdle
  /\ SinkIdle
  /\ LockIdle
  /\ KvIdle
  /\ MetaIdle

\* The timestamps a share on the bus can have after the shares of seq: the
\* shares come in the order of their days, but for a late share of the last
\* second of the first day.
ArrivingTimestamps(seq) ==
  LET days   == {86400} \cup {seq[i].timestamp_ - (seq[i].timestamp_ % 86400) :
                                i \in 1..Len(seq)}
      newest == CHOOSE d \in days : \A e \in days : e <= d
  IN {t \in LogTimestamps : t \in {newest, newest + 86400, 86400 + 86399}}

\* The messages the consumer can return after the shares of seq: nullptr
\* (the timeout), a message with err set, a message of another length than
\* sizeof(Share), a share that isValid rejects, and a valid share.
LogMessages(seq) ==
  {[kind |-> k] : k \in {"null", "err", "length"}}
    \cup {[kind |-> "invalid", share |-> [id |-> 0, timestamp_ |-> 86400]]}
    \cup {[kind |-> "share",
           share |-> [id |-> Len(seq) + 1, timestamp_ |-> timestamp]] :
             timestamp \in ArrivingTimestamps(seq)}

\* Share::isValid; the id of a share of the model stands for the fields the
\* test reads.
Share_isValid(share) == share.id > 0

\* consumeShareLog that leaves the invalid share in shares_.
ShareLogWriter_consumeShareLog_noPop(shares, message) ==
  IF message.kind \in {"err", "length"} THEN shares
  ELSE Append(shares, message.share)

\* consumeShareLog: shares_ after the call.
ShareLogWriter_consumeShareLog(shares, message) ==
  IF message.kind = "err" THEN shares
  ELSE IF message.kind = "length" THEN shares
  ELSE LET pushed == Append(shares, message.share)
       IN IF ~Share_isValid(message.share)
            THEN SubSeq(pushed, 1, Len(pushed) - 1)
            ELSE pushed

InFlush == writerPc \in {"flush", "lastFlush"}

FlushDue == Len(shares_) > 0 /\ lastDiskFlushAge > kFlushDiskInterval

\* The clock advances.
LogTick ==
  /\ lastDiskFlushAge' = Saturate(lastDiskFlushAge + TickSeconds, kFlushDiskInterval)
  /\ UNCHANGED <<running_, shares_, fileHandlers_, handleBuf, disk, writerPc,
                 flushIdx, usedHandlers, consumed, everClosed, reopened,
                 lastPosition_, parsed>>
  /\ UNCHANGED rkmessage
  /\ UNCHANGED outsideLog

\* ShareLogWriter::stop, called from another thread.
WriterStop ==
  /\ running_
  /\ running_' = FALSE
  /\ UNCHANGED <<shares_, fileHandlers_, handleBuf, disk, writerPc, flushIdx,
                 usedHandlers, lastDiskFlushAge, consumed, everClosed,
                 reopened, lastPosition_, parsed>>
  /\ UNCHANGED rkmessage
  /\ UNCHANGED outsideLog

\* while (running_) is false: run leaves its loop.
WriterExitLoop ==
  /\ writerPc = "loop"
  /\ ~running_
  /\ writerPc' = AfterLoop(shares_)
  /\ flushIdx' = 0
  /\ usedHandlers' = {}
  /\ UNCHANGED <<running_, shares_, fileHandlers_, handleBuf, disk,
                 lastDiskFlushAge, consumed, everClosed, reopened,
                 lastPosition_, parsed>>
  /\ UNCHANGED rkmessage
  /\ UNCHANGED outsideLog

\* The loop calls flushToDisk: shares are buffered and the interval is over.
WriterStartFlush ==
  /\ writerPc = "loop"
  /\ running_
  /\ FlushDue
  /\ writerPc' = "flush"
  /\ flushIdx' = 0
  /\ usedHandlers' = {}
  /\ UNCHANGED <<running_, shares_, fileHandlers_, handleBuf, disk,
                 lastDiskFlushAge, consumed, everClosed, reopened,
                 lastPosition_, parsed>>
  /\ UNCHANGED rkmessage
  /\ UNCHANGED outsideLog

\* One round of the loop of run without a flush: hlConsumer_.consumer returns
\* nullptr after the timeout, or a message that consumeShareLog is called
\* with.
ConsumeMessage(message) ==
  /\ \/ writerPc = "loop" /\ running_ /\ ~FlushDue
     \/ writerPc = "consume"
  /\ writerPc' = "loop"
  /\ (message.kind = "share") => Len(consumed) < MaxLogShares
  /\ shares_' = IF message.kind = "null" THEN shares_
                ELSE ShareLogWriter_consumeShareLog(shares_, message)
  /\ consumed' = IF message.kind = "share"
                  THEN Append(consumed, message.share) ELSE consumed
  /\ UNCHANGED <<running_, fileHandlers_, handleBuf, disk, flushIdx,
                 usedHandlers, lastDiskFlushAge, everClosed, reopened,
                 lastPosition_, parsed>>
  /\ UNCHANGED outsideLog

WriterConsume ==
  \E message \in LogMessages(consumed) :
    ConsumeMessage(message) /\ UNCHANGED rkmessage

\* The same round, with the message kept for the properties that speak of
\* it.
WriterConsumeMessage ==
  \E message \in LogMessages(consumed) :
    ConsumeMessage(message) /\ rkmessage' = message

\* One round of the loop of flushToDisk: getFileHandler, then fwrite of the
\* share into the buffer of the FILE, of which the C library writes any
\* number of leading units out to the file.
FlushWrite ==
  /\ InFlush
  /\ flushIdx < Len(shares_)
  /\ LET share  == shares_[flushIdx + 1]
         ts     == DayOf(share.timestamp_)
         isOpen == ts \in fileHandlers_
         file   == IF isOpen THEN disk[ts] ELSE Fopen(disk[ts])
         buf    == handleBuf[ts] \o Encode(share)
     IN /\ ts \in LogDays
        /\ fileHandlers_' = fileHandlers_ \cup {ts}
        /\ reopened' = IF ~isOpen /\ ts \in everClosed
                         THEN reopened \cup {ts} ELSE reopened
        /\ usedHandlers' = usedHandlers \cup {ts}
        /\ \E n \in 0..Len(buf) :
             /\ disk' = [disk EXCEPT ![ts] = file \o SubSeq(buf, 1, n)]
             /\ handleBuf' = [handleBuf EXCEPT ![ts] = SubSeq(buf, n + 1, Len(buf))]
  /\ flushIdx' = flushIdx + 1
  /\ UNCHANGED <<running_, shares_, writerPc, lastDiskFlushAge, consumed,
                 everClosed, lastPosition_, parsed>>
  /\ UNCHANGED rkmessage
  /\ UNCHANGED outsideLog

\* The end of flushToDisk: shares_.clear(), fflush of every used FILE and
\* tryCloseOldHanders; in the loop lastFlushTime = time(nullptr) follows.
FlushEnd ==
  /\ InFlush
  /\ flushIdx = Len(shares_)
  /\ shares_' = <<>>
  /\ disk' = [d \in LogDays |-> disk[d] \o handleBuf[d]]
  /\ handleBuf' = [d \in LogDays |-> <<>>]
  /\ fileHandlers_' = ShareLogWriter_tryCloseOldHanders(fileHandlers_)
  /\ everClosed' = everClosed \cup (fileHandlers_ \ fileHandlers_')
  /\ writerPc' = IF writerPc = "flush" THEN "consume" ELSE "exited"
  /\ lastDiskFlushAge' = IF writerPc = "flush" THEN 0 ELSE lastDiskFlushAge
  /\ UNCHANGED <<running_, flushIdx, usedHandlers, consumed, reopened,
                 lastPosition_, parsed>>
  /\ UNCHANGED rkmessage
  /\ UNCHANGED outsideLog

\* ShareLogParser::processGrowingShareLog on the file of parserDay.
ProcessGrowingShareLog ==
  LET readNum == ReadNum(disk[parserDay], lastPosition_)
  IN /\ lastPosition_' = AdvancePosition(disk[parserDay], lastPosition_, readNum)
     /\ parsed' = parsed \o ParseShareLog(disk[parserDay], lastPosition_, readNum)
     /\ UNCHANGED <<running_, shares_, fileHandlers_, handleBuf, disk, writerPc,
                    flushIdx, usedHandlers, lastDiskFlushAge, consumed,
                    everClosed, reopened>>
     /\ UNCHANGED rkmessage
     /\ UNCHANGED outsideLog

LogNext ==
  \/ LogTick
  \/ WriterStop
  \/ WriterExitLoop
  \/ WriterStartFlush
  \/ WriterConsume
  \/ FlushWrite
  \/ FlushEnd
  \/ ProcessGrowingShareLog

SpecLog == LogInit /\ [][LogNext]_allVars

\* The writer alone, with the last message kept in rkmessage.
ConsumeNext ==
  \/ LogTick
  \/ WriterStop
  \/ WriterExitLoop
  \/ WriterStartFlush
  \/ WriterConsumeMessage
  \/ FlushWrite
  \/ FlushEnd

SpecConsume == LogInit /\ [][ConsumeNext]_allVars

\* The shares of seq whose timestamp lies in the day that starts at day.
OfDay(seq, day) ==
  SelectSeq(seq, LAMBDA sh : day <= sh.timestamp_ /\ sh.timestamp_ < day + 86400)

IsPrefix(a, b) == Len(a) <= Len(b) /\ a = SubSeq(b, 1, Len(a))

Shares(seq) == [i \in 1..Len(seq) |-> [id |-> seq[i].id, timestamp_ |-> seq[i].timestamp_]]

\* The shares that flushToDisk has taken out of shares_.
Flushed == SubSeq(consumed, 1, Len(consumed) - Len(shares_))

\* Every call of processGrowingShareLog from position pos to the end of the
\* file: the shares it parses.
RECURSIVE ReadAll(_, _)
ReadAll(content, pos) ==
  IF ReadNum(content, pos) = 0 THEN <<>>
  ELSE ParseShareLog(content, pos, ReadNum(content, pos))
         \o ReadAll(content, pos + ReadNum(content, pos) * RecordUnits)

\* C18: what processGrowingShareLog yields from a day file is, while a flush
\* runs, a prefix of the consumed shares of that day and, between flushes,
\* exactly the flushed shares of that day in the order they were consumed;
\* the parser that follows the growing file of parserDay has parsed a prefix
\* of them, and all of them once it has reached the last whole record.
WrittenSharesReadBack ==
  /\ \A day \in LogDays :
       /\ IsPrefix(Shares(ReadAll(disk[day], 0)), OfDay(consumed, day))
       /\ ~InFlush => Shares(ReadAll(disk[day], 0)) = OfDay(Flushed, day)
  /\ IsPrefix(Shares(parsed), OfDay(consumed, parserDay))
  /\ (~InFlush /\ ReadNum(disk[parserDay], lastPosition_) = 0)
       => Shares(parsed) = OfDay(Flushed, parserDay)

\* The file of parserDay was closed by tryCloseOldHanders and opened again,
\* both flushed shares of that day have been parsed, and every share of the
\* run has been consumed.
ReadBackWitness ==
  /\ parserDay \in reopened
  /\ ~InFlush
  /\ Len(parsed) = 2
  /\ Len(OfDay(Flushed, parserDay)) = 2
  /\ Len(consumed) = MaxLogShares

\* C19: every unit of the file of day D belongs to a share with
\* D <= timestamp < D + 86400, and between flushes the file holds as many
\* records as shares of that day were flushed.
RecordsInDayBucket ==
  \A day \in LogDays :
    /\ \A i \in 1..Len(disk[day]) :
         day <= disk[day][i].ts /\ disk[day][i].ts < day + 86400
    /\ \A i \in 1..Len(handleBuf[day]) :
         day <= handleBuf[day][i].ts /\ handleBuf[day][i].ts < day + 86400
    /\ ~InFlush =>
         Len(disk[day]) = RecordUnits * Len(OfDay(Flushed, day))

\* The first and the last second of a day are in one file, the first second
\* of the next day in another.
DayBucketWitness ==
  /\ ~InFlush
  /\ \E i, j \in 1..Len(disk[86400]) :
       disk[86400][i].ts = 86400 /\ disk[86400][j].ts = 86400 + 86399
  /\ Len(disk[2 * 86400]) = RecordUnits

\* C20: when run has exited, shares_ is empty and every day file holds the
\* records of all consumed shares of that day.
NothingLostOnExit ==
  writerPc = "exited" =>
    /\ shares_ = <<>>
    /\ ~running_
    /\ \A day \in LogDays :
         /\ handleBuf[day] = <<>>
         /\ Len(disk[day]) = RecordUnits * Len(OfDay(consumed, day))
         /\ \A i \in 1..Len(OfDay(consumed, day)), p \in 1..RecordUnits :
              disk[day][(i - 1) * RecordUnits + p] =
                [id |-> OfDay(consumed, day)[i].id,
                 ts |-> OfDay(consumed, day)[i].timestamp_, part |-> p]

\* run has exited through a last flush of shares of two days.
ExitFlushWitness ==
  /\ writerPc = "exited"
  /\ flushIdx >= 2
  /\ Cardinality(usedHandlers) >= 2

\* C21: the step that ends a flushToDisk leaves at most 3 handles open, the
\* handles it closed have smaller day keys than every handle it kept, and a
\* step that opens the file of a day whose handle was closed keeps what the
\* file held (append mode).
HandleCacheKeepsNewest ==
  [][ /\ (InFlush /\ ~InFlush') =>
           /\ Cardinality(fileHandlers_') <= 3
           /\ fileHandlers_' \subseteq fileHandlers_
           /\ \A closed \in fileHandlers_ \ fileHandlers_' :
                \A kept \in fileHandlers_' : closed < kept
      /\ \A ts \in (fileHandlers_' \ fileHandlers_) \cap everClosed :
           IsPrefix(disk[ts], disk'[ts])
    ]_allVars

\* Four day files were open at the end of a flush, the oldest was closed, and
\* a later flush opened it again while three newer ones were open.
HandleCacheWitness ==
  /\ ~InFlush
  /\ Cardinality(fileHandlers_) = 3
  /\ Cardinality(everClosed) = 1
  /\ reopened = everClosed
  /\ \A day \in everClosed : disk[day] # <<>> /\ day \notin fileHandlers_

\* C22: a call of consumeShareLog with a message that has err set, has
\* another length than sizeof(Share) or carries a share that isValid rejects
\* leaves shares_ as it was; every share in shares_ is valid, and every
\* record on the disk or in the buffer of a FILE is the record of a valid
\* share.
MalformedMessageDropped ==
  [][ /\ (/\ writerPc \in {"loop", "consume"} /\ writerPc' = "loop"
          /\ rkmessage'.kind \in {"err", "length", "invalid"})
           => shares_' = shares_
      /\ \A i \in 1..Len(shares_') : shares_'[i].id > 0
      /\ \A day \in LogDays :
           /\ \A i \in 1..Len(disk'[day]) : disk'[day][i].id > 0
           /\ \A i \in 1..Len(handleBuf'[day]) : handleBuf'[day][i].id > 0
    ]_allVars

\* An invalid share was handed to consumeShareLog while a valid share was
\* buffered, and the buffer still holds just the valid share.
MalformedDroppedWitness ==
  /\ rkmessage.kind = "invalid"
  /\ writerPc = "loop"
  /\ Len(shares_) = 1
  /\ Len(consumed) = 1

\* C23: after every step the cursor lastPosition_ is a multiple of the record
\* size and at most the length of the file, a call of processGrowingShareLog
\* moves it forward by the whole records its fread got (by nothing when there
\* is none), and the shares handed to parseShare are the records of the file
\* before the cursor, each once and in the order of the file.
CursorOnRecordBoundary ==
  [][ /\ lastPosition_' % RecordUnits = 0
      /\ lastPosition_' <= Len(disk'[parserDay])
      /\ LET whole == (Len(disk[parserDay]) - lastPosition_) \div RecordUnits
         IN lastPosition_' \in
              {lastPosition_,
               lastPosition_ + RecordUnits *
                 (IF whole > kMaxElementsNum_ THEN kMaxElementsNum_ ELSE whole)}
      /\ Shares(parsed') =
           [i \in 1..(lastPosition_' \div RecordUnits) |->
              [id |-> disk'[parserDay][(i - 1) * RecordUnits + 1].id,
               timestamp_ |-> disk'[parserDay][(i - 1) * RecordUnits + 1].ts]]
    ]_allVars

\* The parser has read two records in more than one call and stands before
\* a third record of which only a part is in the file.
CursorWitness ==
  /\ lastPosition_ = 2 * RecordUnits
  /\ Len(parsed) = 2
  /\ Len(disk[parserDay]) = 2 * RecordUnits + 1
  /\ ReadNum(disk[parserDay], lastPosition_) = 0

(* ============ ShareLogParser on a file that does not change ============ *)
kElements == 2000000

\* The units of a file that holds the records of shares with the timestamps
\* tss and after them cut units of one more record.
FileUnits(tss, cut) ==
  [u \in 1..(Len(tss) * RecordUnits + cut) |->
     LET i == ((u - 1) \div RecordUnits) + 1
     IN [id |-> i,
         ts |-> IF i <= Len(tss) THEN tss[i] ELSE 86400,
         part |-> ((u - 1) % RecordUnits) + 1]]

\* The files a parser can find: whole records, and whole records followed by
\* a part of one (the writer was killed in a write).
FileContents ==
  {FileUnits(tss, cut) :
     tss \in UNION {[1..k -> {86400, 86400 + 86399}] : k \in 0..MaxFileRecords},
     cut \in 0..(RecordUnits - 1)}

\* processUnchangedShareLog on an existing file: fread of kElements records
\* until it returns 0 at the end of the file; every read is parsed.
RECURSIVE ShareLogParser_processUnchangedShareLog(_, _)
ShareLogParser_processUnchangedShareLog(content, pos) ==
  LET whole   == (Len(content) - pos) \div RecordUnits
      readNum == IF whole > kElements THEN kElements ELSE whole
  IN IF readNum = 0 THEN <<>>
     ELSE ParseShareLog(content, pos, readNum)
            \o ShareLogParser_processUnchangedShareLog(
                 content, pos + readNum * RecordUnits)

FileInit ==
  /\ StatsIdle
  /\ MergeIdle
  /\ FlushIdle
  /\ ShardIdle
  /\ ReplayIdle
  /\ RollupIdle
  /\ SinkIdle
  /\ LockIdle
  /\ KvIdle
  /\ MetaIdle
  /\ running_ = TRUE
  /\ shares_ = <<>>
  /\ fileHandlers_ = {}
  /\ handleBuf = [d \in LogDays |-> <<>>]
  /\ disk \in {[d \in LogDays |-> IF d = parserDay THEN content ELSE <<>>] :
                 content \in FileContents}
  /\ writerPc = "loop"
  /\ flushIdx = 0
  /\ usedHandlers = {}
  /\ lastDiskFlushAge = 0
  /\ consumed = <<>>
  /\ everClosed = {}
  /\ reopened = {}
  /\ lastPosition_ = 0
  /\ parsed = <<>>
  /\ rkmessage = [kind |-> "none"]

\* A parser of its own reads the whole file of parserDay.
ProcessUnchangedShareLog ==
  /\ unchanged.result = "none"
  /\ unchanged' = [result |-> "true",
                   parsed |-> ShareLogParser_processUnchangedShareLog(
                                disk[parserDay], 0)]
  /\ UNCHANGED <<replayClock, date_, shareLogParser_, shareLogParser, dayFiles,
                 existing, replayPc, serverRunning, replayOp>>
  /\ UNCHANGED <<logVars, outsideReplay>>

FileNext ==
  \/ ProcessUnchangedShareLog
  \/ ProcessGrowingShareLog

SpecReplayFile == FileInit /\ [][FileNext]_allVars

\* C24: of a file whose length is not a multiple of the record size,
\* processGrowingShareLog hands no record to parseShare, and
\* processUnchangedShareLog hands none to it and does not return true.
TruncatedFileRejected ==
  (Len(disk[parserDay]) % RecordUnits # 0) =>
     /\ parsed = <<>>
     /\ unchanged.result # "true"

\* Supporting C24: both functions parse every whole record of the file and
\* pass over the units after the last whole record.
TruncatedFileReadToLastRecord ==
  LET whole == Len(disk[parserDay]) \div RecordUnits
  IN /\ Len(parsed) <= whole
     /\ unchanged.result = "true" => Len(unchanged.parsed) = whole

(* ======================= ShareLogParserServer ========================= *)
\* A new ShareLogParser: lastPosition_(0) and nothing parsed.
NewParser(day) ==
  [null |-> FALSE, date_ |-> day, lastPosition_ |-> 0, unflushed |-> FALSE]

\* initShareLogParser(datets): date_ and shareLogParser_ after the call and
\* the files that exist then. ShareLogParser::init fails when the ping of
\* the database fails; otherwise it creates the file when it is missing.
InitShareLogParser(datets, pingOk, files) ==
  LET day == datets - (datets % 86400)
  IN [date_ |-> day,
      shareLogParser_ |-> IF pingOk THEN NewParser(day) ELSE NullParser,
      existing |-> IF pingOk THEN files \cup {day} ELSE files,
      res |-> pingOk]

\* isReachEOF: lastPosition_ == st_size, and true when open or fstat fails.
ShareLogParser_isReachEOF(parser, statOk) ==
  IF ~statOk THEN TRUE
  ELSE parser.lastPosition_ = Len(dayFiles[parser.date_])

\* The test of trySwithBinFile after "still today" was excluded.
SwitchDue(now, parser, statOk) ==
  LET beginTs == now - (now % 86400)
  IN /\ now > beginTs + 5
     /\ ShareLogParser_isReachEOF(parser, statOk)
     /\ beginTs \in existing

\* The cursor after the inner loop of the thread: processGrowingShareLog is
\* called until it reads nothing.
RECURSIVE ReadToEnd(_, _)
ReadToEnd(content, pos) ==
  IF ReadNum(content, pos) = 0 THEN pos
  ELSE ReadToEnd(content, AdvancePosition(content, pos, ReadNum(content, pos)))

ReplayInit ==
  /\ StatsIdle
  /\ MergeIdle
  /\ FlushIdle
  /\ ShardIdle
  /\ LogIdle
  /\ ReplayIdle
  /\ RollupIdle
  /\ SinkIdle
  /\ LockIdle
  /\ KvIdle
  /\ MetaIdle

\* The clock advances.
ReplayTick ==
  /\ \E t \in ReplayTimes : t > replayClock /\ replayClock' = t
  /\ UNCHANGED <<unchanged, date_, shareLogParser_, shareLogParser, dayFiles,
                 existing, replayPc, serverRunning, replayOp>>
  /\ UNCHANGED <<logVars, outsideReplay>>

\* ShareLogWriter appends a unit of a record to a day file, which it creates
\* when it is missing.
WriterAppend ==
  /\ \E day \in ReplayDays :
       /\ Len(dayFiles[day]) < MaxDayUnits
       /\ existing' = existing \cup {day}
       /\ dayFiles' = [dayFiles EXCEPT ![day] =
            Append(@, [id |-> (Len(@) \div RecordUnits) + 1, ts |-> day,
                       part |-> (Len(@) % RecordUnits) + 1])]
  /\ UNCHANGED <<unchanged, replayClock, date_, shareLogParser_,
                 shareLogParser, replayPc, serverRunning, replayOp>>
  /\ UNCHANGED <<logVars, outsideReplay>>

\* ShareLogParserServer::stop.
ServerStop ==
  /\ serverRunning
  /\ serverRunning' = FALSE
  /\ UNCHANGED <<unchanged, replayClock, date_, shareLogParser_,
                 shareLogParser, dayFiles, existing, replayPc, replayOp>>
  /\ UNCHANGED <<logVars, outsideReplay>>

\* ShareLogParserServer::run: the first initShareLogParser, then the thread
\* is started.
ServerRun ==
  /\ replayPc = "run"
  /\ \E pingOk \in BOOLEAN :
       LET init == InitShareLogParser(replayClock, pingOk, existing)
       IN /\ date_' = init.date_
          /\ shareLogParser_' = init.shareLogParser_
          /\ existing' = init.existing
          /\ replayPc' = IF init.res THEN "top" ELSE "stopped"
  /\ UNCHANGED <<unchanged, replayClock, shareLogParser, dayFiles,
                 serverRunning, replayOp>>
  /\ UNCHANGED <<logVars, outsideReplay>>

\* The head of the loop of runThreadShareLogParser: the thread copies
\* shareLogParser_; when it is null it calls initShareLogParser, and after a
\* success the assert on its own copy, which is still null, fails.
LoopTop ==
  /\ replayPc = "top"
  /\ IF ~serverRunning
       THEN /\ replayPc' = "stopped"
            /\ UNCHANGED <<date_, shareLogParser_, shareLogParser, existing>>
     ELSE IF shareLogParser_ # NullParser
       THEN /\ shareLogParser' = TRUE
            /\ replayPc' = "read"
            /\ UNCHANGED <<date_, shareLogParser_, existing>>
     ELSE \E pingOk \in BOOLEAN :
            LET init == InitShareLogParser(replayClock, pingOk, existing)
            IN /\ shareLogParser' = FALSE
               /\ date_' = init.date_
               /\ shareLogParser_' = init.shareLogParser_
               /\ existing' = init.existing
               /\ replayPc' = IF init.res THEN "assertFailed" ELSE "top"
  /\ UNCHANGED <<unchanged, replayClock, dayFiles, serverRunning, replayOp>>
  /\ UNCHANGED <<logVars, outsideReplay>>

\* The inner loop: processGrowingShareLog until it returns 0.
LoopRead ==
  /\ replayPc = "read"
  /\ LET pos == IF serverRunning
                  THEN ReadToEnd(dayFiles[shareLogParser_.date_],
                                 shareLogParser_.lastPosition_)
                  ELSE shareLogParser_.lastPosition_
     IN shareLogParser_' =
          [shareLogParser_ EXCEPT
             !.lastPosition_ = pos,
             !.unflushed = @ \/ pos # shareLogParser_.lastPosition_]
  /\ replayPc' = "flush"
  /\ UNCHANGED <<unchanged, replayClock, date_, shareLogParser, dayFiles,
                 existing, serverRunning, replayOp>>
  /\ UNCHANGED <<logVars, outsideReplay>>

\* if (time(nullptr) > lastFlushDBTime + kFlushDBInterval_) flushToDB(): the
\* interval is over or it is not.
LoopFlush ==
  /\ replayPc = "flush"
  /\ \E due \in BOOLEAN :
       shareLogParser_' = IF due THEN [shareLogParser_ EXCEPT !.unflushed = FALSE]
                          ELSE shareLogParser_
  /\ replayPc' = "switch"
  /\ UNCHANGED <<unchanged, replayClock, date_, shareLogParser, dayFiles,
                 existing, serverRunning, replayOp>>
  /\ UNCHANGED <<logVars, outsideReplay>>

\* trySwithBinFile.
TrySwithBinFile ==
  /\ replayPc = "switch"
  /\ replayPc' = "top"
  /\ \E statOk, pingOk \in BOOLEAN :
       LET now     == replayClock
           beginTs == now - (now % 86400)
           init    == InitShareLogParser(now, pingOk, existing)
       IN IF beginTs # date_ /\ SwitchDue(now, shareLogParser_, statOk)
            THEN /\ date_' = init.date_
                 /\ shareLogParser_' = init.shareLogParser_
                 /\ existing' = init.existing
                 /\ replayOp' = [kind |-> "trySwithBinFile", flushed |-> TRUE,
                                 statOk |-> statOk, res |-> init.res,
                                 from |-> date_]
            ELSE /\ UNCHANGED <<date_, shareLogParser_, existing>>
                 /\ replayOp' = [kind |-> "trySwithBinFile", flushed |-> FALSE,
                                 statOk |-> statOk, res |-> FALSE,
                                 from |-> date_]
  /\ UNCHANGED <<unchanged, replayClock, shareLogParser, dayFiles,
                 serverRunning>>
  /\ UNCHANGED <<logVars, outsideReplay>>

ReplayNext ==
  \/ ReplayTick
  \/ WriterAppend
  \/ ServerStop
  \/ ServerRun
  \/ LoopTop
  \/ LoopRead
  \/ LoopFlush
  \/ TrySwithBinFile

SpecReplay == ReplayInit /\ [][ReplayNext]_allVars

\* The three conditions of a rotation as the claim states them.
RotationConditions ==
  LET beginTs == replayClock - (replayClock % 86400)
  IN /\ beginTs # date_
     /\ replayClock > beginTs + 5
     /\ shareLogParser_.lastPosition_ = Len(dayFiles[shareLogParser_.date_])
     /\ beginTs \in existing

\* C25: a call of trySwithBinFile made when the day of the clock differs
\* from date_ and is more than 5 seconds old, the cursor equals the size of
\* the file and the file of the new day exists, calls flushToDB and leaves a
\* parser of the new day with cursor 0; a call made when one of them does not
\* hold leaves date_ and the parser as they were.
RotationOnlyWhenDue ==
  [][ (replayPc = "switch" /\ replayPc' = "top") =>
        IF RotationConditions
          THEN /\ replayOp'.flushed
               /\ date_' = replayClock - (replayClock % 86400)
               /\ shareLogParser_' = NewParser(date_')
          ELSE UNCHANGED <<date_, shareLogParser_>>
    ]_allVars

\* Supporting C25: the same, for the calls in which fstat and the ping of the
\* database succeed.
RotationWhenDueWithoutFailure ==
  [][ (replayPc = "switch" /\ replayPc' = "top"
         /\ replayOp'.statOk /\ (replayOp'.flushed => replayOp'.res)) =>
        IF RotationConditions
          THEN /\ replayOp'.flushed
               /\ date_' = replayClock - (replayClock % 86400)
               /\ shareLogParser_' = NewParser(date_')
          ELSE UNCHANGED <<date_, shareLogParser_>>
    ]_allVars

(* ============== ShareStatsDay and the rollup of the parser ============== *)
\* The shares parseShare is called with: of the pool's own user 0 and of
\* user 1, with and without a worker id, accepted and rejected, of weight 1
\* with score 1 and of weight 2 with score 4, and one share of weight 0.
RollupShares ==
  {[userId_ |-> u, workerHashId_ |-> w, timestamp_ |-> t, result_ |-> r,
    share_ |-> ws[1], score |-> ws[2]] :
     u \in RollupUserIds, w \in RollupWorkerIds, t \in RollupTimestamps,
     r \in {ACCEPT, REJECT}, ws \in {<<1, 1>>, <<2, 4>>}}
  \cup {[userId_ |-> 1, workerHashId_ |-> 5, timestamp_ |-> 86400,
         result_ |-> ACCEPT, share_ |-> 0, score |-> 0]}

\* A Share is valid iff the result is one of the two enum values, the
\* timestamp is nonzero and the weight is above 0.
Share_isValidRecord(share) ==
  /\ share.result_ \in {ACCEPT, REJECT}
  /\ share.timestamp_ # 0
  /\ share.share_ > 0

getHourIdx(timestamp) == (timestamp % 86400) \div 3600

RECURSIVE Pow2(_)
Pow2(n) == IF n = 0 THEN 1 ELSE 2 * Pow2(n - 1)

\* The distance of the floating-point numbers around x.
RECURSIVE Ulp(_)
Ulp(x) == IF x < Pow2(MantissaBits) THEN 1 ELSE 2 * Ulp(x \div 2)

\* a += b on floating-point numbers: the sum rounded to MantissaBits
\* significant bits, to the nearest number and to the even one of two.
FAdd(a, b) ==
  LET x     == a + b
      u     == Ulp(x)
      lower == x - (x % u)
  IN IF 2 * (x % u) < u THEN lower
     ELSE IF 2 * (x % u) > u THEN lower + u
     ELSE IF (lower \div u) % 2 = 0 THEN lower ELSE lower + u

\* processShare that leaves a rejected share out of the day total.
ShareStatsDay_processShare_noDayReject(stats, hourIdx, share) ==
  IF share.result_ = ACCEPT
    THEN [stats EXCEPT !.shareAccept1h_[hourIdx] = @ + share.share_,
                       !.shareAccept1d_ = @ + share.share_,
                       !.score1h_[hourIdx] = FAdd(@, share.score),
                       !.score1d_ = FAdd(@, share.score),
                       !.modifyHoursFlag_ = @ \cup {hourIdx}]
    ELSE [stats EXCEPT !.shareReject1h_[hourIdx] = @ + share.share_,
                       !.modifyHoursFlag_ = @ \cup {hourIdx}]

\* ShareStatsDay::processShare.
ShareStatsDay_processShare(stats, hourIdx, share) ==
  IF share.result_ = ACCEPT
    THEN [stats EXCEPT !.shareAccept1h_[hourIdx] = @ + share.share_,
                       !.shareAccept1d_ = @ + share.share_,
                       !.score1h_[hourIdx] = FAdd(@, share.score),
                       !.score1d_ = FAdd(@, share.score),
                       !.modifyHoursFlag_ = @ \cup {hourIdx}]
    ELSE [stats EXCEPT !.shareReject1h_[hourIdx] = @ + share.share_,
                       !.shareReject1d_ = @ + share.share_,
                       !.modifyHoursFlag_ = @ \cup {hourIdx}]

\* The entry of key in the map, or a new one.
StatsOf(map, key) == IF key \in DOMAIN map THEN map[key] ELSE NewShareStatsDay

\* ShareLogParser::parseShare: workersStats_ after the call.
ShareLogParser_parseShare(map, share) ==
  IF ~Share_isValidRecord(share) THEN map
  ELSE
    LET wkey    == [userId_ |-> share.userId_, workerId_ |-> share.workerHashId_]
        ukey    == [userId_ |-> share.userId_, workerId_ |-> 0]
        pkey    == [userId_ |-> 0, workerId_ |-> 0]
        hourIdx == getHourIdx(share.timestamp_)
        found   == [k \in DOMAIN map \cup {wkey, ukey} |-> StatsOf(map, k)]
        afterW  == [found EXCEPT ![wkey] = ShareStatsDay_processShare(@, hourIdx, share)]
        afterU  == [afterW EXCEPT ![ukey] = ShareStatsDay_processShare(@, hourIdx, share)]
    IN [afterU EXCEPT ![pkey] = ShareStatsDay_processShare(@, hourIdx, share)]

\* The table generateHoursData and generateDailyData put the row of a key
\* into; a key with a worker id and user 0 is of an unknown type and gets no
\* row.
TableOf(key) ==
  IF key.userId_ # 0 /\ key.workerId_ # 0 THEN "workers"
  ELSE IF key.userId_ # 0 /\ key.workerId_ = 0 THEN "users"
  ELSE IF key.userId_ = 0 /\ key.workerId_ = 0 THEN "pool"
  ELSE "unknown"

\* The statements of flushHourOrDailyData that can fail.
RollupSqlSteps == {"ping", "drop", "create", "multiInsert", "merge"}
RollupTables == {<<t, p>> : t \in {"workers", "users", "pool"}, p \in {"hour", "day"}}
NoFailure == [table |-> <<"none", "none">>, step |-> "none"]
RollupFailures ==
  {NoFailure} \cup [table : RollupTables, step : RollupSqlSteps]

RollupInit ==
  /\ StatsIdle
  /\ MergeIdle
  /\ FlushIdle
  /\ ShardIdle
  /\ LogIdle
  /\ ReplayIdle
  /\ RollupIdle
  /\ SinkIdle
  /\ LockIdle
  /\ KvIdle
  /\ MetaIdle

\* parseShare of one share of the log.
ParseShare ==
  /\ nParsed < MaxRollupShares
  /\ \E share \in RollupShares :
       /\ workersStats_' = ShareLogParser_parseShare(workersStats_, share)
       /\ rollupOp' = [kind |-> "parseShare", share |-> share]
  /\ nParsed' = nParsed + 1
  /\ UNCHANGED outsideRollup

\* ShareLogParser::flushToDB. After the ping it collects the entries with a
\* flag, generates their rows and resets their flags, and then calls
\* flushHourOrDailyData for each table; at most one statement of one of the
\* calls fails.
FlushToDB ==
  /\ \E pingOk \in BOOLEAN, failure \in RollupFailures :
       LET keys   == {k \in DOMAIN workersStats_ :
                        workersStats_[k].modifyHoursFlag_ # {}}
           values == {<<TableOf(k), p>> : k \in keys, p \in {"hour", "day"}}
                       \cap RollupTables
       IN IF ~pingOk
            THEN /\ failure = NoFailure
                 /\ UNCHANGED workersStats_
                 /\ rollupOp' = [kind |-> "flushToDB", res |-> FALSE,
                                 failure |-> failure, merged |-> {}]
            ELSE /\ failure.table \in values \cup {NoFailure.table}
                 /\ workersStats_' =
                      [k \in DOMAIN workersStats_ |->
                         IF k \in keys
                           THEN [workersStats_[k] EXCEPT !.modifyHoursFlag_ = {}]
                           ELSE workersStats_[k]]
                 /\ rollupOp' = [kind |-> "flushToDB", res |-> TRUE,
                                 failure |-> failure,
                                 merged |-> values \ {failure.table}]
  /\ UNCHANGED nParsed
  /\ UNCHANGED outsideRollup

RollupNext ==
  \/ ParseShare
  \/ FlushToDB

SpecRollup == RollupInit /\ [][RollupNext]_allVars

RECURSIVE SumTo(_, _)
SumTo(f, h) == IF h < 0 THEN 0 ELSE f[h] + SumTo(f, h - 1)

\* C26 as stated: in every ShareStatsDay the hours of the accepted weights,
\* of the rejected weights and of the scores sum to the day values.
HoursSumToDay ==
  \A key \in DOMAIN workersStats_ :
    /\ SumTo(workersStats_[key].shareAccept1h_, 23) = workersStats_[key].shareAccept1d_
    /\ SumTo(workersStats_[key].shareReject1h_, 23) = workersStats_[key].shareReject1d_
    /\ SumTo(workersStats_[key].score1h_, 23) = workersStats_[key].score1d_

\* C26: in every ShareStatsDay the hours of the accepted weights and of the
\* rejected weights sum to the day values, and the hours of the scores sum to
\* the day score as long as the sum is a number that no addition has
\* rounded.
HoursSumToDayExactly ==
  \A key \in DOMAIN workersStats_ :
    /\ SumTo(workersStats_[key].shareAccept1h_, 23) = workersStats_[key].shareAccept1d_
    /\ SumTo(workersStats_[key].shareReject1h_, 23) = workersStats_[key].shareReject1d_
    /\ SumTo(workersStats_[key].score1h_, 23) < Pow2(MantissaBits)
         => SumTo(workersStats_[key].score1h_, 23) = workersStats_[key].score1d_

\* A worker entry holds an accepted share of hour 0 and one of hour 23, and
\* its scores were added without rounding.
HoursSumWitness ==
  \E key \in DOMAIN workersStats_ :
    /\ key.userId_ # 0 /\ key.workerId_ # 0
    /\ workersStats_[key].shareAccept1h_[0] > 0
    /\ workersStats_[key].shareAccept1h_[23] > 0
    /\ workersStats_[key].score1d_ = 2

\* What a call of parseShare has added to the entry of key in hour h.
Gained(key, h) ==
  [accept1h |-> StatsOf(workersStats_', key).shareAccept1h_[h]
                  - StatsOf(workersStats_, key).shareAccept1h_[h],
   accept1d |-> StatsOf(workersStats_', key).shareAccept1d_
                  - StatsOf(workersStats_, key).shareAccept1d_,
   reject1h |-> StatsOf(workersStats_', key).shareReject1h_[h]
                  - StatsOf(workersStats_, key).shareReject1h_[h],
   reject1d |-> StatsOf(workersStats_', key).shareReject1d_
                  - StatsOf(workersStats_, key).shareReject1d_]

\* What one share adds to each of its entries.
WeightOnce(share) ==
  [accept1h |-> IF share.result_ = ACCEPT THEN share.share_ ELSE 0,
   accept1d |-> IF share.result_ = ACCEPT THEN share.share_ ELSE 0,
   reject1h |-> IF share.result_ = ACCEPT THEN 0 ELSE share.share_,
   reject1d |-> IF share.result_ = ACCEPT THEN 0 ELSE share.share_]

\* C27: a call of parseShare with a valid share, also one of worker id 0 or
\* user id 0, adds the weight of the share once to the hour of the share and
\* to the day of the pool entry, the user entry and the worker entry, and
\* sets the bit of the hour in each of them.
EachEntryGainsWeightOnce ==
  [][ (nParsed' = nParsed + 1 /\ rollupOp'.share.share_ > 0) =>
        LET share == rollupOp'.share
            h     == (share.timestamp_ % 86400) \div 3600
        IN \A key \in {[userId_ |-> 0, workerId_ |-> 0],
                       [userId_ |-> share.userId_, workerId_ |-> 0],
                       [userId_ |-> share.userId_, workerId_ |-> share.workerHashId_]} :
             /\ Gained(key, h) = WeightOnce(share)
             /\ h \in workersStats_'[key].modifyHoursFlag_
    ]_allVars

\* Supporting C27: the same, for the shares that have a user id and a worker
\* id other than 0.
WorkerShareGainsWeightOnce ==
  [][ (/\ nParsed' = nParsed + 1 /\ rollupOp'.share.share_ > 0
       /\ rollupOp'.share.userId_ # 0 /\ rollupOp'.share.workerHashId_ # 0) =>
        LET share == rollupOp'.share
            h     == (share.timestamp_ % 86400) \div 3600
        IN \A key \in {[userId_ |-> 0, workerId_ |-> 0],
                       [userId_ |-> share.userId_, workerId_ |-> 0],
                       [userId_ |-> share.userId_, workerId_ |-> share.workerHashId_]} :
             /\ Gained(key, h) = WeightOnce(share)
             /\ h \in workersStats_'[key].modifyHoursFlag_
    ]_allVars

\* C28: a call of flushToDB in which a statement of flushHourOrDailyData
\* fails leaves the flags of the entries whose rows go to the failed table as
\* they were.
DirtyBitsKeptOnFailure ==
  [][ (rollupOp'.kind = "flushToDB" /\ rollupOp'.failure.step # "none") =>
        \A key \in DOMAIN workersStats_ :
          TableOf(key) = rollupOp'.failure.table[1] =>
            workersStats_'[key].modifyHoursFlag_ = workersStats_[key].modifyHoursFlag_
    ]_allVars

\* Supporting C28: a call of flushToDB whose first ping fails leaves every
\* flag as it was, and every other call resets every flag.
DirtyBitsResetAfterPing ==
  [][ rollupOp'.kind = "flushToDB" =>
        \A key \in DOMAIN workersStats_ :
          workersStats_'[key].modifyHoursFlag_ =
            IF rollupOp'.res THEN {} ELSE workersStats_[key].modifyHoursFlag_
    ]_allVars


\* ---------------------------------------------------------------------
\* The threads of one StatsServer and the sinks they call, from run() to
\* the end of ~StatsServer.  boost::thread t(...) of
\* flushWorkersAndUsersToDB and flushWorkersAndUsersToRedis goes out of
\* scope at once, so the two flush threads are detached; the destructor
\* joins threadConsume_ and threadConsumeCommonEvents_ only.
\* ---------------------------------------------------------------------

\* The order in which ~StatsServer closes and deletes the connections:
\* redisGroup_ from its back.
DtorOrder ==
  <<poolDB_, poolDBCommonEvents_, redisCommonEvents_>>
    \o [k \in 1..ShardConcurrency |-> redisGroup_[ShardConcurrency - k]]

Enter(u, t, rs) == [r \in Sinks |-> IF r \in rs THEN u[r] \cup {t} ELSE u[r]]

Leave(u, t, rs) == [r \in Sinks |-> IF r \in rs THEN u[r] \ {t} ELSE u[r]]

\* A call through a connection that was deleted, or on the destroyed lock,
\* is undefined: the process dies or the call goes on.
Touch(rs) ==
  IF \E r \in rs : sinkState[r] # "open"
    THEN crashed' \in BOOLEAN
    ELSE crashed' = crashed

SinkInit ==
  /\ StatsIdle
  /\ MergeIdle
  /\ ShardIdle
  /\ LogIdle
  /\ ReplayIdle
  /\ RollupIdle
  /\ SinkIdle
  /\ LockIdle
  /\ KvIdle
  /\ MetaIdle
  /\ isInitializing_ = FALSE
  /\ isInserting_ = FALSE
  /\ isUpdateRedis_ = FALSE
  /\ hasPoolDB = TRUE
  /\ redisConcurrency_ = ShardConcurrency
  /\ lastFlushDBAge = 0
  /\ lastShareAge = 0
  /\ cleanDue = FALSE
  /\ dbThreads = [s \in FlushSlots |-> NoDbThread]
  /\ redisThreads = [s \in FlushSlots |-> NoRedisThread]
  /\ lastFlushTimeSet = FALSE
  /\ freshShareReceived = TRUE
  /\ dropped = {}
  /\ skipped = {}

\* StatsServer::run: setupThreadConsume starts the two consumer threads and
\* runHttpd dispatches; when the setup fails run returns.
ServerSetup ==
  \E ok \in BOOLEAN :
    /\ ~crashed
    /\ mainPc = "init"
    /\ mainPc' = IF ok THEN "httpd" ELSE "dtor"
    /\ threadPc' = IF ok
         THEN [threadPc EXCEPT ![ThreadConsume] = "loop",
                               ![ThreadConsumeCommonEvents] = "loop"]
         ELSE threadPc
    /\ UNCHANGED <<statsRunning, closeIdx, users, sinkState, crashed>>
    /\ UNCHANGED <<isInserting_, isUpdateRedis_, outsideSinks>>

\* StatsServer::stop from the signal handler: the event loop exits and run
\* returns.
StatsStop ==
  /\ ~crashed
  /\ mainPc = "httpd"
  /\ statsRunning' = FALSE
  /\ mainPc' = "dtor"
  /\ UNCHANGED <<closeIdx, threadPc, users, sinkState, crashed>>
  /\ UNCHANGED <<isInserting_, isUpdateRedis_, outsideSinks>>

\* ~StatsServer: stop().
DtorStop ==
  /\ ~crashed
  /\ mainPc = "dtor"
  /\ statsRunning' = FALSE
  /\ mainPc' = "joinConsume"
  /\ UNCHANGED <<closeIdx, threadPc, users, sinkState, crashed>>
  /\ UNCHANGED <<isInserting_, isUpdateRedis_, outsideSinks>>

\* ~StatsServer: threadConsume_.join(), then
\* threadConsumeCommonEvents_.join(), each when joinable.
DtorJoin ==
  \E t \in {ThreadConsume, ThreadConsumeCommonEvents} :
    /\ ~crashed
    /\ mainPc = IF t = ThreadConsume THEN "joinConsume" ELSE "joinEvents"
    /\ threadPc[t] \in {"none", "exited"}
    /\ mainPc' = IF t = ThreadConsume THEN "joinEvents" ELSE "close"
    /\ UNCHANGED <<statsRunning, closeIdx, threadPc, users, sinkState, crashed>>
    /\ UNCHANGED <<isInserting_, isUpdateRedis_, outsideSinks>>

\* ~StatsServer calls close() on the next connection.
DtorCloseBegin ==
  /\ ~crashed
  /\ mainPc = "close"
  /\ closeIdx < Len(DtorOrder)
  /\ sinkState[DtorOrder[closeIdx + 1]] = "open"
  /\ sinkState' = [sinkState EXCEPT ![DtorOrder[closeIdx + 1]] = "closing"]
  /\ users' = Enter(users, MainThread, {DtorOrder[closeIdx + 1]})
  /\ UNCHANGED <<statsRunning, mainPc, closeIdx, threadPc, crashed>>
  /\ UNCHANGED <<isInserting_, isUpdateRedis_, outsideSinks>>

\* close() returns and the connection is deleted.
DtorCloseEnd ==
  /\ ~crashed
  /\ mainPc = "close"
  /\ closeIdx < Len(DtorOrder)
  /\ sinkState[DtorOrder[closeIdx + 1]] = "closing"
  /\ sinkState' = [sinkState EXCEPT ![DtorOrder[closeIdx + 1]] = "closed"]
  /\ users' = Leave(users, MainThread, {DtorOrder[closeIdx + 1]})
  /\ closeIdx' = closeIdx + 1
  /\ UNCHANGED <<statsRunning, mainPc, threadPc, crashed>>
  /\ UNCHANGED <<isInserting_, isUpdateRedis_, outsideSinks>>

\* pthread_rwlock_destroy(&rwlock_), the last statement of ~StatsServer.
DtorDestroyLock ==
  /\ ~crashed
  /\ mainPc = "close"
  /\ closeIdx = Len(DtorOrder)
  /\ sinkState' = [sinkState EXCEPT ![rwlock_] = "closed"]
  /\ mainPc' = "destroyed"
  /\ UNCHANGED <<statsRunning, closeIdx, threadPc, users, crashed>>
  /\ UNCHANGED <<isInserting_, isUpdateRedis_, outsideSinks>>

\* An iteration of runThreadConsume in which the flush is due:
\* flushWorkersAndUsersToDB and flushWorkersAndUsersToRedis.
ConsumeFlush ==
  /\ ~crashed
  /\ threadPc[ThreadConsume] = "loop"
  /\ statsRunning
  /\ isInserting_' = TRUE
  /\ isUpdateRedis_' = TRUE
  /\ threadPc' = [t \in Threads |->
       IF t = DbFlushThread /\ ~isInserting_ THEN "ping"
       ELSE IF t = RedisFlushThread /\ ~isUpdateRedis_ THEN "spawn"
       ELSE threadPc[t]]
  /\ UNCHANGED <<statsRunning, mainPc, closeIdx, users, sinkState, crashed>>
  /\ UNCHANGED outsideSinks

\* while (running_) of a consumer thread turns false: the thread ends.
ConsumerExit ==
  \E t \in {ThreadConsume, ThreadConsumeCommonEvents} :
    /\ ~crashed
    /\ threadPc[t] = "loop"
    /\ ~statsRunning
    /\ threadPc' = [threadPc EXCEPT ![t] = "exited"]
    /\ UNCHANGED <<statsRunning, mainPc, closeIdx, users, sinkState, crashed>>
    /\ UNCHANGED <<isInserting_, isUpdateRedis_, outsideSinks>>

\* consumeCommonEvents of a worker_update: updateWorkerStatusToDB begins.
EventsUpdateDB ==
  /\ ~crashed
  /\ threadPc[ThreadConsumeCommonEvents] = "loop"
  /\ statsRunning
  /\ threadPc' = [threadPc EXCEPT ![ThreadConsumeCommonEvents] = "updateDB"]
  /\ users' = Enter(users, ThreadConsumeCommonEvents, {poolDBCommonEvents_})
  /\ Touch({poolDBCommonEvents_})
  /\ UNCHANGED <<statsRunning, mainPc, closeIdx, sinkState>>
  /\ UNCHANGED <<isInserting_, isUpdateRedis_, outsideSinks>>

\* updateWorkerStatusToDB returns and updateWorkerStatusToRedis begins.
EventsUpdateRedis ==
  /\ ~crashed
  /\ threadPc[ThreadConsumeCommonEvents] = "updateDB"
  /\ threadPc' = [threadPc EXCEPT ![ThreadConsumeCommonEvents] = "updateRedis"]
  /\ users' = Enter(Leave(users, ThreadConsumeCommonEvents, {poolDBCommonEvents_}),
                    ThreadConsumeCommonEvents, {redisCommonEvents_})
  /\ Touch({redisCommonEvents_})
  /\ UNCHANGED <<statsRunning, mainPc, closeIdx, sinkState>>
  /\ UNCHANGED <<isInserting_, isUpdateRedis_, outsideSinks>>

\* updateWorkerStatusToRedis returns.
EventsDone ==
  /\ ~crashed
  /\ threadPc[ThreadConsumeCommonEvents] = "updateRedis"
  /\ threadPc' = [threadPc EXCEPT ![ThreadConsumeCommonEvents] = "loop"]
  /\ users' = Leave(users, ThreadConsumeCommonEvents, {redisCommonEvents_})
  /\ UNCHANGED <<statsRunning, mainPc, closeIdx, sinkState, crashed>>
  /\ UNCHANGED <<isInserting_, isUpdateRedis_, outsideSinks>>

\* _flushWorkersAndUsersToDBThread: poolDB_->ping() begins.
DbPingBegin ==
  /\ ~crashed
  /\ threadPc[DbFlushThread] = "ping"
  /\ threadPc' = [threadPc EXCEPT ![DbFlushThread] = "pinging"]
  /\ users' = Enter(users, DbFlushThread, {poolDB_})
  /\ Touch({poolDB_})
  /\ UNCHANGED <<statsRunning, mainPc, closeIdx, sinkState>>
  /\ UNCHANGED <<isInserting_, isUpdateRedis_, outsideSinks>>

\* ping returns: on failure goto finish, else the rows are collected under
\* the read lock.
DbPingEnd ==
  \E ok \in BOOLEAN :
    /\ ~crashed
    /\ threadPc[DbFlushThread] = "pinging"
    /\ threadPc' = [threadPc EXCEPT ![DbFlushThread] =
                      IF ok THEN "collect" ELSE "finish"]
    /\ users' = IF ok
         THEN Enter(Leave(users, DbFlushThread, {poolDB_}), DbFlushThread, {rwlock_})
         ELSE Leave(users, DbFlushThread, {poolDB_})
    /\ IF ok THEN Touch({rwlock_}) ELSE crashed' = crashed
    /\ UNCHANGED <<statsRunning, mainPc, closeIdx, sinkState>>
    /\ UNCHANGED <<isInserting_, isUpdateRedis_, outsideSinks>>

\* The read lock is released; with no row goto finish, else the statements
\* on poolDB_ begin.
DbUnlock ==
  \E rows \in BOOLEAN :
    /\ ~crashed
    /\ threadPc[DbFlushThread] = "collect"
    /\ threadPc' = [threadPc EXCEPT ![DbFlushThread] =
                      IF rows THEN "sql" ELSE "finish"]
    /\ users' = IF rows
         THEN Enter(Leave(users, DbFlushThread, {rwlock_}), DbFlushThread, {poolDB_})
         ELSE Leave(users, DbFlushThread, {rwlock_})
    /\ IF rows THEN Touch({poolDB_}) ELSE crashed' = crashed
    /\ UNCHANGED <<statsRunning, mainPc, closeIdx, sinkState>>
    /\ UNCHANGED <<isInserting_, isUpdateRedis_, outsideSinks>>

\* The statements on poolDB_ are over, failed or not.
DbSqlEnd ==
  /\ ~crashed
  /\ threadPc[DbFlushThread] = "sql"
  /\ threadPc' = [threadPc EXCEPT ![DbFlushThread] = "finish"]
  /\ users' = Leave(users, DbFlushThread, {poolDB_})
  /\ UNCHANGED <<statsRunning, mainPc, closeIdx, sinkState, crashed>>
  /\ UNCHANGED <<isInserting_, isUpdateRedis_, outsideSinks>>

\* finish: isInserting_ = false.
DbThreadEnd ==
  /\ ~crashed
  /\ threadPc[DbFlushThread] = "finish"
  /\ threadPc' = [threadPc EXCEPT ![DbFlushThread] = "none"]
  /\ isInserting_' = FALSE
  /\ UNCHANGED <<statsRunning, mainPc, closeIdx, users, sinkState, crashed>>
  /\ UNCHANGED <<isUpdateRedis_, outsideSinks>>

\* _flushWorkersAndUsersToRedisThread(): one thread per connection, after
\* assert(redisGroup_.size() == redisConcurrency_).
RedisSpawnShards ==
  /\ ~crashed
  /\ threadPc[RedisFlushThread] = "spawn"
  /\ threadPc' = [t \in Threads |->
       IF t = RedisFlushThread THEN "join"
       ELSE IF \E i \in ShardSteps : t = RedisShardThread[i] THEN "start"
       ELSE threadPc[t]]
  /\ Touch({redisGroup_[i] : i \in ShardSteps})
  /\ UNCHANGED <<statsRunning, mainPc, closeIdx, users, sinkState>>
  /\ UNCHANGED <<isInserting_, isUpdateRedis_, outsideSinks>>

\* _flushWorkersAndUsersToRedisThread(threadStep): checkRedis pings
\* redisGroup_[threadStep].
ShardCheckBegin ==
  \E i \in ShardSteps :
    /\ ~crashed
    /\ threadPc[RedisShardThread[i]] = "start"
    /\ threadPc' = [threadPc EXCEPT ![RedisShardThread[i]] = "check"]
    /\ users' = Enter(users, RedisShardThread[i], {redisGroup_[i]})
    /\ Touch({redisGroup_[i]})
    /\ UNCHANGED <<statsRunning, mainPc, closeIdx, sinkState>>
    /\ UNCHANGED <<isInserting_, isUpdateRedis_, outsideSinks>>

\* checkRedis returns: on failure the shard thread returns, else
\* flushWorkersToRedis and flushUsersToRedis write to redisGroup_[threadStep]
\* under the read lock.
ShardCheckEnd ==
  \E i \in ShardSteps, ok \in BOOLEAN :
    /\ ~crashed
    /\ threadPc[RedisShardThread[i]] = "check"
    /\ threadPc' = [threadPc EXCEPT ![RedisShardThread[i]] =
                      IF ok THEN "flush" ELSE "done"]
    /\ users' = IF ok
         THEN Enter(users, RedisShardThread[i], {redisGroup_[i], rwlock_})
         ELSE Leave(users, RedisShardThread[i], {redisGroup_[i]})
    /\ IF ok THEN Touch({redisGroup_[i], rwlock_}) ELSE crashed' = crashed
    /\ UNCHANGED <<statsRunning, mainPc, closeIdx, sinkState>>
    /\ UNCHANGED <<isInserting_, isUpdateRedis_, outsideSinks>>

\* flushUsersToRedis returns and the shard thread ends.
ShardFlushEnd ==
  \E i \in ShardSteps :
    /\ ~crashed
    /\ threadPc[RedisShardThread[i]] = "flush"
    /\ threadPc' = [threadPc EXCEPT ![RedisShardThread[i]] = "done"]
    /\ users' = Leave(users, RedisShardThread[i], {redisGroup_[i], rwlock_})
    /\ UNCHANGED <<statsRunning, mainPc, closeIdx, sinkState, crashed>>
    /\ UNCHANGED <<isInserting_, isUpdateRedis_, outsideSinks>>

\* Every shard thread is joined and the sizes of the maps are logged under
\* the read lock.
RedisJoinShards ==
  /\ ~crashed
  /\ threadPc[RedisFlushThread] = "join"
  /\ \A i \in ShardSteps : threadPc[RedisShardThread[i]] = "done"
  /\ threadPc' = [t \in Threads |->
       IF t = RedisFlushThread THEN "log"
       ELSE IF \E i \in ShardSteps : t = RedisShardThread[i] THEN "none"
       ELSE threadPc[t]]
  /\ users' = Enter(users, RedisFlushThread, {rwlock_})
  /\ Touch({rwlock_})
  /\ UNCHANGED <<statsRunning, mainPc, closeIdx, sinkState>>
  /\ UNCHANGED <<isInserting_, isUpdateRedis_, outsideSinks>>

\* The read lock is released; isUpdateRedis_ = false.
RedisThreadEnd ==
  /\ ~crashed
  /\ threadPc[RedisFlushThread] = "log"
  /\ threadPc' = [threadPc EXCEPT ![RedisFlushThread] = "none"]
  /\ users' = Leave(users, RedisFlushThread, {rwlock_})
  /\ isUpdateRedis_' = FALSE
  /\ UNCHANGED <<statsRunning, mainPc, closeIdx, sinkState, crashed>>
  /\ UNCHANGED <<isInserting_, outsideSinks>>

SinkNext ==
  \/ ServerSetup
  \/ StatsStop
  \/ DtorStop
  \/ DtorJoin
  \/ DtorCloseBegin
  \/ DtorCloseEnd
  \/ DtorDestroyLock
  \/ ConsumeFlush
  \/ ConsumerExit
  \/ EventsUpdateDB
  \/ EventsUpdateRedis
  \/ EventsDone
  \/ DbPingBegin
  \/ DbPingEnd
  \/ DbUnlock
  \/ DbSqlEnd
  \/ DbThreadEnd
  \/ RedisSpawnShards
  \/ ShardCheckBegin
  \/ ShardCheckEnd
  \/ ShardFlushEnd
  \/ RedisJoinShards
  \/ RedisThreadEnd

SpecSinks == SinkInit /\ [][SinkNext]_allVars

\* C29: ~StatsServer closes the connections and destroys rwlock_ only after
\* every flush thread that was in flight has ended, and no flush thread is
\* inside a call on a connection that was closed or on the destroyed lock.
ClosedOnlyAfterFlushesEnd ==
  \A r \in Sinks :
    sinkState[r] # "open" =>
      /\ \A t \in FlushThreads : threadPc[t] = "none"
      /\ users[r] \cap FlushThreads = {}

\* What the joins of ~StatsServer give: a connection is closed and the lock
\* destroyed only after the two consumer threads have ended, so neither of
\* them is ever inside a call on a closed sink.
ClosedOnlyAfterConsumersEnd ==
  \A r \in Sinks :
    sinkState[r] # "open" =>
      /\ \A t \in {ThreadConsume, ThreadConsumeCommonEvents} :
           threadPc[t] \in {"none", "exited"}
      /\ users[r] \cap {ThreadConsume, ThreadConsumeCommonEvents} = {}

\* The thread that owns a connection.
OwnerOf(c) ==
  IF c = poolDB_ THEN DbFlushThread
  ELSE IF c \in {poolDBCommonEvents_, redisCommonEvents_}
    THEN ThreadConsumeCommonEvents
  ELSE RedisShardThread[c.idx]

\* C30: no connection is used by two threads at the same time, and of the
\* threads the server starts only shard thread i is inside a call on
\* redisGroup_[i], only the SQL flush thread on poolDB_, and only the
\* meta-event thread on poolDBCommonEvents_ and redisCommonEvents_.
ConnectionUsedByOwnerOnly ==
  \A c \in Connections :
    /\ Cardinality(users[c]) <= 1
    /\ users[c] \cap Threads \subseteq {OwnerOf(c)}

\* Until ~StatsServer starts to close the connections, each of them is
\* used by its own thread only.
ConnectionUsedByOwnerWhileOpen ==
  (\A c \in Connections : sinkState[c] = "open") => ConnectionUsedByOwnerOnly

\* C37: a processShare is all-or-nothing over its three targets, also when
\* the clock advances during the call: either the pool, worker and user
\* aggregates have all recorded the share or none of them has changed, and
\* no aggregate that recorded no share (lastShareTime_ = 0) is in the
\* Registry after the call.
ProcessShareAllOrNothing ==
  [][op'.kind = "processShare"
     => /\ \/ AllTargetsRecorded(op'.share)
           \/ /\ poolWorker_' = poolWorker_
              /\ workerSet_' = workerSet_
              /\ userSet_' = userSet_
        /\ \A k \in DOMAIN workerSet_' : workerSet_'[k].lastShareTime_ # 0
        /\ \A u \in DOMAIN userSet_' : userSet_'[u].lastShareTime_ # 0
  ]_vars

\* C34: an operation that holds only the read lock never changes the
\* structure of the Registry: after an HTTP worker-status query or a batch
\* query userWorkerCount_ has the entries it had before, also for a user id
\* with no entry, and workerSet_ and userSet_ have the same keys.
ReadersAddNoEntry ==
  [][op'.kind \in {"http", "batch"}
     => /\ DOMAIN userWorkerCount_' = DOMAIN userWorkerCount_
        /\ DOMAIN workerSet_' = DOMAIN workerSet_
        /\ DOMAIN userSet_' = DOMAIN userSet_
  ]_vars

\* The batch query, which looks its keys up with find, leaves the Registry
\* as it is.
BatchQueryAddsNoEntry ==
  [][op'.kind = "batch" => Reg' = Reg]_vars

\* C36: every worker in workerSet_ has its user in userSet_, after any
\* sequence of processShare and removeExpiredWorkers calls, also when the
\* shares of one user arrive with out-of-order timestamps.
EveryWorkerHasItsUser ==
  \A k \in DOMAIN workerSet_ : k.userId_ \in DOMAIN userSet_

\* processShare alone keeps every worker with its user: a worker is
\* inserted together with its user or for a user that is registered.
ProcessShareKeepsWorkerWithUser ==
  [][(op'.kind = "processShare" /\ EveryWorkerHasItsUser)
     => EveryWorkerHasItsUser']_vars

\* C35: in the loop of runThreadShareLogParser the thread's parser handle is
\* non-null whenever processGrowingShareLog is called: the assert after the
\* null check never fails, also in the iteration that follows a failed
\* rotation and a successful initShareLogParser.
ParserHandleNonNull ==
  /\ replayPc # "assertFailed"
  /\ replayPc \in {"read", "flush", "switch"} => shareLogParser = TRUE

\* The assert holds in every iteration that finds shareLogParser_ set: the
\* calls on the handle are made on a non-null copy.
ParserHandleNonNullWhenSet ==
  replayPc \in {"read", "flush", "switch"} => shareLogParser = TRUE


\* ---------------------------------------------------------------------
\* rwlock_: _processShare split where it releases and takes the lock, the
\* sweep of removeExpiredWorkers, and the rows that
\* _flushWorkersAndUsersToDBThread collects under the read lock.
\* ---------------------------------------------------------------------

\* pthread_rwlock_wrlock(&rwlock_) returns with every read lock released.
WrlockFree_always(reader) == TRUE

\* pthread_rwlock_wrlock(&rwlock_) returns only when no thread holds the
\* read lock: the SQL flush thread holds it from its rdlock to its unlock.
WrlockFree(reader) == reader.pc # "rows"

\* The keys the row loops of the SQL flush thread have still to visit: the
\* loop over workerSet_ runs first, then the loop over userSet_ (worker id 0).
DbKeysToVisit(reg, values) ==
  LET done    == {values[i].key : i \in 1..Len(values)}
      workers == DOMAIN reg.workerSet_ \ done
      usrs    == {WorkerKey(u, 0) : u \in DOMAIN reg.userSet_} \ done
  IN IF workers # {} THEN workers ELSE usrs

Overlapped == IF op.kind = "lock" THEN op.overlapped ELSE FALSE

LockInit ==
  /\ StatsIdle
  /\ MergeIdle
  /\ FlushIdle
  /\ ShardIdle
  /\ LogIdle
  /\ ReplayIdle
  /\ RollupIdle
  /\ SinkIdle
  /\ LockIdle
  /\ KvIdle
  /\ MetaIdle

\* Between two calls the clock passes the horizon of every recorded share
\* (an advance of the clock inside a call is drawn by ProcessShare above).
LockTick ==
  /\ nTicks < MaxTicks
  /\ \A t \in Callers : callers[t].pc = "idle"
  /\ nTicks' = nTicks + 1
  /\ clock' = clock + STATS_SLIDING_WINDOW_SECONDS + 1
  /\ UNCHANGED <<poolWorker_, registry, lastShareTime_, op, nShares, nExpires,
                 nQueries, lockVars>>
  /\ UNCHANGED outsideLock

\* StatsServer::processShare of a new share up to the unlock of the read
\* lock in _processShare: the pool aggregate records the share, and the two
\* finds tell whether the worker and the user are registered.
CallLookup ==
  \E t \in Callers, userId \in UserIds :
    \E workerId \in WorkerIdsOf(userId) :
      LET share == [userId_ |-> userId, workerHashId_ |-> workerId,
                    ip_ |-> 100 + nShares, timestamp_ |-> clock,
                    share_ |-> 1, result_ |-> ACCEPT]
          key == WorkerKey(userId, workerId)
      IN /\ callers[t].pc = "idle"
         /\ nShares < MaxShares
         /\ nShares' = nShares + 1
         /\ lastShareTime_' = share.timestamp_
         /\ poolWorker_' = WorkerShares_processShare(poolWorker_, share, clock)
         /\ callers' = [callers EXCEPT ![t] =
              [pc |-> "process", share |-> share,
               workerFound |-> key \in DOMAIN workerSet_,
               userFound |-> userId \in DOMAIN userSet_]]
         /\ op' = [kind |-> "lock",
                   overlapped |-> (Overlapped \/
                      \E u \in Callers \ {t} : callers[u].pc # "idle")]
         /\ UNCHANGED <<clock, registry, nTicks, nExpires, nQueries, dbReader>>
         /\ UNCHANGED outsideLock

\* _processShare between its two locks: the share is recorded by the
\* aggregates that were found and by a new aggregate for each that was not.
CallProcess ==
  \E t \in Callers :
    LET c      == callers[t]
        share  == c.share
        key    == WorkerKey(share.userId_, share.workerHashId_)
        fresh  == WorkerShares_processShare(
                    NewWorkerShares(share.workerHashId_, share.userId_),
                    share, clock)
    IN /\ c.pc = "process"
       /\ workerSet_' = IF c.workerFound
            THEN [workerSet_ EXCEPT ![key] = WorkerShares_processShare(@, share, clock)]
            ELSE workerSet_
       /\ userSet_' = IF c.userFound
            THEN [userSet_ EXCEPT ![share.userId_] =
                    WorkerShares_processShare(@, share, clock)]
            ELSE userSet_
       /\ callers' = [callers EXCEPT ![t] =
            IF c.workerFound /\ c.userFound THEN NoCall
            ELSE [c EXCEPT !.pc = "insert"] @@ [fresh |-> fresh]]
       /\ UNCHANGED <<clock, poolWorker_, userWorkerCount_, totalWorkerCount_,
                      totalUserCount_, lastShareTime_, op, nShares, nTicks,
                      nExpires, nQueries, dbReader>>
       /\ UNCHANGED outsideLock

\* _processShare under the write lock: the new aggregates are stored and the
\* counts incremented.
CallInsert ==
  \E t \in Callers :
    LET c     == callers[t]
        share == c.share
        key   == WorkerKey(share.userId_, share.workerHashId_)
        r1    == IF c.workerFound THEN Reg ELSE InsertWorker(Reg, key, c.fresh)
        r2    == IF c.userFound THEN r1 ELSE InsertUser(r1, share.userId_, c.fresh)
    IN /\ c.pc = "insert"
       /\ WrlockFree(dbReader)
       /\ SetRegistry(r2)
       /\ callers' = [callers EXCEPT ![t] = NoCall]
       /\ UNCHANGED <<clock, poolWorker_, lastShareTime_, op, nShares, nTicks,
                      nExpires, nQueries, dbReader>>
       /\ UNCHANGED outsideLock

\* removeExpiredWorkers under the write lock, called by the thread that
\* calls processShare, between two of its calls.
LockRemoveExpired ==
  /\ nExpires < MaxExpires
  /\ \A t \in Callers : callers[t].pc = "idle"
  /\ WrlockFree(dbReader)
  /\ nExpires' = nExpires + 1
  /\ SetRegistry(StatsServer_removeExpiredWorkers(
                   Reg, [k \in DOMAIN workerSet_ |-> clock],
                   [u \in DOMAIN userSet_ |-> clock]))
  /\ UNCHANGED <<clock, poolWorker_, lastShareTime_, op, nShares, nTicks,
                 nQueries, lockVars>>
  /\ UNCHANGED outsideLock

\* _flushWorkersAndUsersToDBThread takes the read lock.
DbLockRows ==
  /\ dbReader.pc = "none"
  /\ dbReader' = [pc |-> "rows", values |-> <<>>, atLock |-> Reg]
  /\ UNCHANGED <<vars, callers>>
  /\ UNCHANGED outsideLock

\* One iteration of a row loop: values.push_back of the entry's status.
DbRow ==
  \E key \in DbKeysToVisit(Reg, dbReader.values) :
    LET ws == IF key.workerId_ = 0 THEN userSet_[key.userId_] ELSE workerSet_[key]
    IN /\ dbReader.pc = "rows"
       /\ dbReader' = [dbReader EXCEPT !.values =
            Append(@, [key |-> key,
                       status |-> WorkerShares_getWorkerStatus(ws, clock)])]
       /\ UNCHANGED <<vars, callers>>
       /\ UNCHANGED outsideLock

\* Both loops are over: pthread_rwlock_unlock.
DbUnlockRows ==
  /\ dbReader.pc = "rows"
  /\ DbKeysToVisit(Reg, dbReader.values) = {}
  /\ dbReader' = NoReader
  /\ UNCHANGED <<vars, callers>>
  /\ UNCHANGED outsideLock

LockNext ==
  \/ LockTick
  \/ CallLookup
  \/ CallProcess
  \/ CallInsert
  \/ LockRemoveExpired
  \/ DbLockRows
  \/ DbRow
  \/ DbUnlockRows

SpecLock == LockInit /\ [][LockNext]_allVars

RECURSIVE SumAccept(_, _)
SumAccept(set, K) ==
  IF K = {} THEN 0
  ELSE LET k == CHOOSE x \in K : TRUE
       IN set[k].acceptCount_ + SumAccept(set, K \ {k})

\* What the Registry holds when no call is in progress and nothing has
\* expired: one aggregate per key, counted once, and every share recorded
\* by its worker and by its user.
EveryShareRecordedOnce ==
  /\ totalWorkerCount_ = Cardinality(DOMAIN workerSet_)
  /\ totalUserCount_ = Cardinality(DOMAIN userSet_)
  /\ \A u \in UserIds :
       CountOf(userWorkerCount_, u) = Cardinality(WorkersOf(workerSet_, u))
  /\ SumAccept(workerSet_, DOMAIN workerSet_) = nShares
  /\ SumAccept(userSet_, DOMAIN userSet_) = nShares

\* C31: when two processShare calls for the same unseen key interleave, the
\* insertion under the write lock checks the map again: the Registry ends
\* with one aggregate for the key that recorded both shares, and
\* totalWorkerCount_ and userWorkerCount_ are incremented once.
InterleavedInsertRecordsBoth ==
  ((\A t \in Callers : callers[t].pc = "idle") /\ nExpires = 0)
    => EveryShareRecordedOnce

\* Calls of processShare that follow one another, as the one consumer
\* thread makes them, leave one aggregate per key with every share recorded.
SequentialInsertRecordsBoth ==
  ((\A t \in Callers : callers[t].pc = "idle") /\ nExpires = 0 /\ ~Overlapped)
    => EveryShareRecordedOnce

\* C39: the rows of one SQL flush are a snapshot of the Registry: from the
\* first row to the last no insert and no expire takes effect, and at the
\* unlock every worker and every user of the Registry has exactly one row.
SqlRowsAreSnapshot ==
  [][dbReader.pc = "rows"
     => /\ DOMAIN workerSet_' = DOMAIN dbReader.atLock.workerSet_
        /\ DOMAIN userSet_' = DOMAIN dbReader.atLock.userSet_
        /\ dbReader'.pc = "none"
             => /\ {dbReader.values[i].key : i \in 1..Len(dbReader.values)} =
                     DOMAIN workerSet_
                       \cup {WorkerKey(u, 0) : u \in DOMAIN userSet_}
                /\ Len(dbReader.values) =
                     Cardinality(DOMAIN workerSet_) + Cardinality(DOMAIN userSet_)
  ]_allVars

\* C39 witness: the SQL flush thread holds the read lock with a worker row
\* and a user row collected while a processShare call waits for the write
\* lock with an aggregate to insert.
SqlRowsWitness ==
  /\ dbReader.pc = "rows"
  /\ Len(dbReader.values) >= 2
  /\ DbKeysToVisit(Reg, dbReader.values) = {}
  /\ \E t \in Callers : callers[t].pc = "insert"


(* ====================================================================== *)
(* The Redis flush: flushWorkersToRedis and flushUsersToRedis write one   *)
(* hash per worker and per user of the registry.                          *)
(* ====================================================================== *)

\* StatsServer::redisPublishPolicy_ as the deployment that publishes both
\* kinds of update sets it (REDIS_PUBLISH_WORKER_UPDATE | _USER_UPDATE).
redisPublishPolicy_ == {"WORKER_UPDATE", "USER_UPDATE"}

\* getRedisKeyMiningWorker(userId, workerId) and getRedisKeyMiningWorker(
\* userId): the user's own hash ("…/all") is keyed here by worker 0, an id
\* no worker of the model carries.
getRedisKeyMiningWorker(userId, workerId) == WorkerKey(userId, workerId)

getRedisKeyMiningWorkerAll(userId) == WorkerKey(userId, 0)

\* The fields of the HMSET prepared for one aggregate.
RedisStatusFields(status, now) ==
  [accept_1m       |-> status.accept1m_,
   accept_5m       |-> status.accept5m_,
   accept_15m      |-> status.accept15m_,
   reject_15m      |-> status.reject15m_,
   accept_1h       |-> status.accept1h_,
   reject_1h       |-> status.reject1h_,
   accept_count    |-> status.acceptCount_,
   last_share_ip   |-> status.lastShareIP_,
   last_share_time |-> status.lastShareTime_,
   updated_at      |-> now]

\* HMSET key field value ...: the fields named are overwritten, the other
\* fields of the hash are kept.
HMSET(kv, key, fields) ==
  Put(kv, key, IF key \in DOMAIN kv THEN fields @@ kv[key] ELSE fields)

\* The keys a flush publishes a notification on.
StatsServer_flushPublishes_workersOnly(policy, workerKeys, userKeys) ==
  IF "WORKER_UPDATE" \in policy THEN workerKeys ELSE {}

StatsServer_flushPublishes(policy, workerKeys, userKeys) ==
  (IF "WORKER_UPDATE" \in policy THEN workerKeys ELSE {})
    \cup (IF "USER_UPDATE" \in policy THEN userKeys ELSE {})

\* The hashes written by one flush of the registry reg at the clock now.
RECURSIVE FlushWorkersToRedis(_, _, _, _)
FlushWorkersToRedis(kv, reg, keys, now) ==
  IF keys = {} THEN kv
  ELSE LET k == CHOOSE x \in keys : TRUE
           status == WorkerShares_getWorkerStatus(reg.workerSet_[k], now)
       IN FlushWorkersToRedis(
            HMSET(kv, getRedisKeyMiningWorker(k.userId_, k.workerId_),
                  RedisStatusFields(status, now)),
            reg, keys \ {k}, now)

RECURSIVE FlushUsersToRedis(_, _, _, _)
FlushUsersToRedis(kv, reg, userIds, now) ==
  IF userIds = {} THEN kv
  ELSE LET u == CHOOSE x \in userIds : TRUE
           status == WorkerShares_getWorkerStatus(reg.userSet_[u], now)
       IN FlushUsersToRedis(
            HMSET(kv, getRedisKeyMiningWorkerAll(u),
                  [worker_count |-> CountOf(reg.userWorkerCount_, u)]
                    @@ RedisStatusFields(status, now)),
            reg, userIds \ {u}, now)

KvInit ==
  /\ StatsIdle
  /\ MergeIdle
  /\ FlushIdle
  /\ ShardIdle
  /\ LogIdle
  /\ ReplayIdle
  /\ RollupIdle
  /\ SinkIdle
  /\ LockIdle
  /\ KvIdle
  /\ MetaIdle

\* The flush thread sleeps kFlushDBInterval_ seconds between two flushes.
KvTick ==
  /\ nTicks < MaxTicks
  /\ nTicks' = nTicks + 1
  /\ clock' = clock + kFlushDBInterval_
  /\ UNCHANGED <<poolWorker_, registry, lastShareTime_, op, nShares, nExpires,
                 nQueries, kvVars>>
  /\ UNCHANGED outsideKv

\* _flushWorkersAndUsersToRedisThread over all its shards: every worker and
\* every user of the registry is written, and userWorkerCount_[userId] adds
\* an entry for a user that has none.
KvFlush ==
  LET workerKeys == {getRedisKeyMiningWorker(k.userId_, k.workerId_) :
                       k \in DOMAIN workerSet_}
      userKeys   == {getRedisKeyMiningWorkerAll(u) : u \in DOMAIN userSet_}
  IN /\ redisKv' = FlushUsersToRedis(
                     FlushWorkersToRedis(redisKv, Reg, DOMAIN workerSet_, clock),
                     Reg, DOMAIN userSet_, clock)
     /\ userWorkerCount_' =
          [u \in (DOMAIN userWorkerCount_) \cup (DOMAIN userSet_) |->
             CountOf(userWorkerCount_, u)]
     /\ redisOp' = [kind |-> "flush", time |-> clock, nShares |-> nShares,
                    written |-> workerKeys \cup userKeys,
                    published |-> StatsServer_flushPublishes(
                                    redisPublishPolicy_, workerKeys, userKeys),
                    prevKind |-> redisOp.kind,
                    prevTime |-> IF redisOp.kind = "flush" THEN redisOp.time ELSE 0,
                    prevShares |-> IF redisOp.kind = "flush" THEN redisOp.nShares ELSE 0,
                    before |-> redisKv]
     /\ UNCHANGED <<clock, poolWorker_, workerSet_, userSet_, totalWorkerCount_,
                    totalUserCount_, lastShareTime_, op, nShares, nTicks,
                    nExpires, nQueries>>
     /\ UNCHANGED outsideKv

KvNext ==
  \/ ProcessShare
  \/ KvTick
  \/ KvFlush

SpecKv == KvInit /\ [][KvNext]_allVars

\* A flush that follows another flush kFlushDBInterval_ seconds later with
\* no share processed between the two.
SecondFlush ==
  /\ redisOp.kind = "flush"
  /\ redisOp.prevKind = "flush"
  /\ redisOp.prevShares = redisOp.nShares
  /\ redisOp.time = redisOp.prevTime + kFlushDBInterval_

StableFields == {"accept_count", "last_share_ip", "last_share_time"}

WindowFields == {"accept_1m", "accept_5m", "accept_15m", "reject_15m",
                 "accept_1h", "reject_1h"}

MaxEvents == 1     \* messages taken from the common-events topic

WorkerNames == {"rig", "box"}

EventsSeen == IF metaOp.kind = "init" THEN 0 ELSE metaOp.n

\* group_id values a row of mining_workers holds when the event arrives:
\* 0 marks a deleted worker, 7 is a group the user made, -userId the default.
TableGroupIds(userId) == {0, 7, 0 - userId}

NoRow == [k \in {} |-> [group_id |-> 0, worker_name |-> "", miner_agent |-> ""]]

\* The row the SQL flush of this server inserts for a worker it has seen:
\* default group, empty name.
FlushedRow(userId) ==
  [group_id |-> 0 - userId, worker_name |-> "", miner_agent |-> ""]

\* StatsServer::updateWorkerStatusToDB.  selected is the result of the SELECT
\* (the rows of the key when the statement ran), table the rows when the
\* second statement runs.
StatsServer_updateWorkerStatusToDB_keepGroup(selected, table, key, workerName, minerAgent) ==
  IF key \in DOMAIN selected
    THEN IF key \in DOMAIN table
           THEN [table EXCEPT ![key] =
                   [group_id |-> selected[key].group_id,
                    worker_name |-> workerName, miner_agent |-> minerAgent]]
           ELSE table
    ELSE IF key \in DOMAIN table
           THEN [table EXCEPT ![key].worker_name = workerName,
                              ![key].miner_agent = minerAgent]
           ELSE Put(table, key, [group_id |-> 0 - key.userId_,
                                 worker_name |-> workerName,
                                 miner_agent |-> minerAgent])

StatsServer_updateWorkerStatusToDB(selected, table, key, workerName, minerAgent) ==
  IF key \in DOMAIN selected
    THEN \* UPDATE ... WHERE puid AND worker_id
         IF key \in DOMAIN table
           THEN [table EXCEPT ![key] =
                   [group_id |-> IF selected[key].group_id = 0
                                   THEN key.userId_ * (0 - 1)
                                   ELSE selected[key].group_id,
                    worker_name |-> workerName, miner_agent |-> minerAgent]]
           ELSE table
    ELSE \* INSERT ... ON DUPLICATE KEY UPDATE worker_name, miner_agent
         IF key \in DOMAIN table
           THEN [table EXCEPT ![key].worker_name = workerName,
                              ![key].miner_agent = minerAgent]
           ELSE Put(table, key, [group_id |-> key.userId_ * (0 - 1),
                                 worker_name |-> workerName,
                                 miner_agent |-> minerAgent])

\* StatsServer::updateWorkerStatusToRedis: the HMSET of the two names.
StatsServer_updateWorkerStatusToRedis(kv, key, workerName, minerAgent, now) ==
  HMSET(kv, getRedisKeyMiningWorker(key.userId_, key.workerId_),
        [worker_name |-> workerName, miner_agent |-> minerAgent,
         updated_at |-> now])

\* mining_workers holds what earlier runs and the web application left.
MetaInit ==
  /\ StatsIdle
  /\ MergeIdle
  /\ FlushIdle
  /\ ShardIdle
  /\ LogIdle
  /\ ReplayIdle
  /\ RollupIdle
  /\ SinkIdle
  /\ LockIdle
  /\ KvIdle
  /\ metaOp = [kind |-> "init"]
  /\ \E present \in SUBSET {WorkerKey(1, 5)} :
       \E groups \in [present -> TableGroupIds(1)] :
         miningWorkers = [k \in present |->
                            [group_id |-> groups[k], worker_name |-> "",
                             miner_agent |-> ""]]

\* consumeCommonEvents of a message that is no well-formed worker_update:
\* a consumer error, undecodable JSON, missing fields or another type.
ConsumeCommonEventsIgnored ==
  /\ EventsSeen < MaxEvents
  /\ metaOp' = [kind |-> "ignored", n |-> EventsSeen + 1]
  /\ UNCHANGED <<vars, miningWorkers, kvVars>>
  /\ UNCHANGED <<mergeVars, flushVars, shardVars, logVars, replayVars,
                 rollupVars, sinkVars, lockVars>>

\* consumeCommonEvents of a worker_update event with both sinks configured.
\* raced: the SQL flush of this server inserts the worker's row between the
\* SELECT and the second statement.  executeOk, hmsetOk: the statements'
\* outcome on their connections.
ConsumeCommonEvents ==
  \E userId \in UserIds, workerName \in WorkerNames,
     raced \in BOOLEAN, executeOk \in BOOLEAN, hmsetOk \in BOOLEAN :
    \E workerId \in WorkerIdsOf(userId) :
      LET key      == WorkerKey(userId, workerId)
          selected == miningWorkers
          table    == IF raced /\ key \notin DOMAIN miningWorkers
                        THEN Put(miningWorkers, key, FlushedRow(userId))
                        ELSE miningWorkers
      IN /\ EventsSeen < MaxEvents
         /\ miningWorkers' =
              IF executeOk
                THEN StatsServer_updateWorkerStatusToDB(
                       selected, table, key, workerName, "cgminer")
                ELSE table
         /\ redisKv' =
              IF hmsetOk
                THEN StatsServer_updateWorkerStatusToRedis(
                       redisKv, key, workerName, "cgminer", clock)
                ELSE redisKv
         /\ metaOp' = [kind |-> "worker_update", n |-> EventsSeen + 1,
                       key |-> key,
                       workerName |-> workerName, before |-> miningWorkers,
                       raced |-> raced, executed |-> executeOk]
         /\ UNCHANGED <<vars, redisOp>>
         /\ UNCHANGED <<mergeVars, flushVars, shardVars, logVars, replayVars,
                        rollupVars, sinkVars, lockVars>>

MetaNext ==
  \/ ProcessShare
  \/ ConsumeCommonEventsIgnored
  \/ ConsumeCommonEvents

SpecMeta == MetaInit /\ [][MetaNext]_allVars

\* After a worker_update whose statement executed, the row carries the
\* names of the event; its group_id is the one it had when that was not 0,
\* -user_id when it was 0, and -user_id when there was no row; and no step
\* of the common-events consumer changes the registry or an aggregate.
GroupIdKeptUnlessDeleted ==
  /\ (metaOp.kind = "worker_update" /\ metaOp.executed) =>
       LET key == metaOp.key
           row == miningWorkers[key]
       IN /\ key \in DOMAIN miningWorkers
          /\ row.worker_name = metaOp.workerName
          /\ row.group_id =
               IF key \in DOMAIN metaOp.before
                 THEN IF metaOp.before[key].group_id = 0
                        THEN 0 - key.userId_
                        ELSE metaOp.before[key].group_id
                 ELSE 0 - key.userId_
          /\ \A k \in (DOMAIN metaOp.before) \ {key} :
               k \in DOMAIN miningWorkers /\ miningWorkers[k] = metaOp.before[k]

\* A step of the common-events consumer leaves the
\* registry, the pool aggregate and every aggregate as they were.
MetaUpdaterLeavesRegistry ==
  [][metaOp' # metaOp =>
       /\ workerSet_' = workerSet_ /\ userSet_' = userSet_
       /\ userWorkerCount_' = userWorkerCount_
       /\ totalWorkerCount_' = totalWorkerCount_
       /\ totalUserCount_' = totalUserCount_
       /\ poolWorker_' = poolWorker_]_allVars

\* The three cases of C32 each happened with a worker registered.
GroupIdKeptWitness ==
  /\ metaOp.kind = "worker_update" /\ metaOp.executed
  /\ metaOp.key \in DOMAIN workerSet_
  /\ metaOp.key \in DOMAIN metaOp.before
  /\ metaOp.before[metaOp.key].group_id = 0
  /\ miningWorkers[metaOp.key].group_id = 0 - metaOp.key.userId_

GroupIdNonzeroWitness ==
  /\ metaOp.kind = "worker_update" /\ metaOp.executed
  /\ metaOp.key \in DOMAIN metaOp.before
  /\ metaOp.before[metaOp.key].group_id = 7
  /\ miningWorkers[metaOp.key].group_id = 7

GroupIdInsertWitness ==
  /\ metaOp.kind = "worker_update" /\ metaOp.executed
  /\ metaOp.key \notin DOMAIN metaOp.before
  /\ miningWorkers[metaOp.key].group_id = 0 - metaOp.key.userId_


\* C32: the row of a worker_update keeps a nonzero group_id, gets -user_id
\* in place of 0 and is inserted with -user_id when absent, and the
\* common-events consumer never changes the registry or an aggregate.
MetaUpdaterContract ==
  /\ []GroupIdKeptUnlessDeleted
  /\ MetaUpdaterLeavesRegistry


(* ====================================================================== *)
(* The writer of the day files against the switch of the replayer.        *)
(* ====================================================================== *)
\* The last trySwithBinFile left the file of day for the one of today, the
\* cursor being at the end of the file it left (fstat succeeded).
RotatedAwayFrom(day) ==
  /\ replayOp.kind = "trySwithBinFile"
  /\ replayOp.flushed
  /\ replayOp.statOk
  /\ replayOp.from = day

\* C38: once the replayer has rotated away from the file of a day, the
\* writer appends nothing more to that file, so that every record of a day
\* file is read by the replayer.
WriterLeavesRotatedFile ==
  [][\A day \in ReplayDays :
       RotatedAwayFrom(day) => dayFiles'[day] = dayFiles[day]]_allVars

\* The replayer never goes back: the parser it holds after a switch is on a
\* later day than the file it left.
ReplayerNeverGoesBack ==
  \A day \in ReplayDays :
    (RotatedAwayFrom(day) /\ shareLogParser_ # NullParser)
      => shareLogParser_.date_ > day

====
